---- MODULE Spec2Model ----
(***************************************************************************)
(* Model of the scanner app of easm-rnd:                                   *)
(*   apps/scanner/engine.py  ScanEngine.evaluate_rule, scan_all_resources  *)
(*   apps/scanner/models.py  Resource, Rule, Finding repositories          *)
(*   apps/scanner/db.py      MongoDBConnection, get_mongodb                *)
(*   apps/scanner/views.py   the upload / delete / scan endpoints          *)
(*                                                                         *)
(* Spec      the store and the scan, public operations one at a time.      *)
(* SpecEval  evaluate_rule as a pure function over bounded inputs.         *)
(***************************************************************************)
EXTENDS Integers, Sequences, FiniteSets, TLC

VARIABLES
    resources,      \* the "resources" collection, in natural (insertion) order
    rules,          \* the "rules" collection, in natural order
    findings,       \* the "findings" collection, in natural order
    nextOid,        \* the next ObjectId generated for a resource or a rule
    clock,          \* datetime.utcnow(), as a logical clock that ticks with every upload
    client,         \* MongoDBConnection._client
    db,             \* MongoDBConnection._db
    scan,           \* per request thread: the frame of scan_all_resources
    resp,           \* the response of the last finished request, or what the last
                    \*          direct call of the repository or the adapter came to
    run,            \* history: number of scans started so far
    evaluated,      \* history: the pairs evaluate_rule was called on, by run
    origin,         \* history: for each finding in the collection, the run and pair that wrote it
    lastClear,      \* history: the run whose clear_all() was the last to empty the findings
    lastReturn,     \* history: result and Finding set of the last scan, if it returned and
                    \*          resources and rules are as they were since it started
    prevReturn,     \* history: the same for the scan before that one
    evalResource,   \* SpecEval: the resource evaluate_rule is applied to
    evalRule,       \* SpecEval: the rule evaluate_rule is applied to
    evalOut,        \* SpecEval: what evaluate_rule did
    closed          \* history: how the last close() that released a handle went

storeVars == <<resources, rules, findings, nextOid, clock>>
connVars  == <<client, db>>
histVars  == <<run, evaluated, origin, lastClear, lastReturn, prevReturn>>
evalVars  == <<evalResource, evalRule, evalOut>>
vars      == <<storeVars, connVars, scan, resp, histVars, evalVars, closed>>

(***************************************************************************)
(* Bounds of the model.                                                    *)
(***************************************************************************)
MaxOid   == 3   \* documents ever inserted into resources and rules together
MaxRuns  == 2   \* scans ever started
MaxNum   == 2   \* SpecEval: the integers 0..MaxNum appear as values
MaxPage  == 2   \* SpecList: the page numbers 1..MaxPage are asked for
MaxSize  == 2   \* SpecList: the page sizes 1..MaxSize are asked for

(***************************************************************************)
(* Python values.  Every value is a record of one shape, so that values of *)
(* different Python types can be compared and collected in sets.           *)
(*   t  the type tag            n  the number (bool: 0/1, float: tenths)   *)
(*   s  the text of a str       l  the elements of a list                  *)
(***************************************************************************)
PyVal(t, n, s, l) == [t |-> t, n |-> n, s |-> s, l |-> l]
PyNone      == PyVal("none", 0, "", <<>>)
PyBool(b)   == PyVal("bool", IF b THEN 1 ELSE 0, "", <<>>)
PyInt(i)    == PyVal("int", i, "", <<>>)
PyFloat(tenths) == PyVal("float", tenths, "", <<>>)
PyStr(s)    == PyVal("str", 0, s, <<>>)
PyList(l)   == PyVal("list", 0, "", l)
PyOid(k)    == PyVal("oid", k, "", <<>>)     \* the _id of a resource or rule
PyDate(k)   == PyVal("date", k, "", <<>>)
PyRegex(s)  == PyVal("regex", 0, s, <<>>)

Char(s, i) == SubSeq(s, i, i)

Digits == "0123456789"
DigitStr(d) == Char(Digits, d + 1)
IsDigit(c)  == \E d \in 0..9 : DigitStr(d) = c
DigitVal(c) == CHOOSE d \in 0..9 : DigitStr(d) = c

RECURSIVE NatStr(_)
NatStr(n) == IF n < 10 THEN DigitStr(n) ELSE NatStr(n \div 10) \o DigitStr(n % 10)

IntStr(i) == IF i < 0 THEN "-" \o NatStr(-i) ELSE NatStr(i)

\* repr of a float held in tenths: 15 is 1.5 and prints "1.5"; 10 prints "1.0".
FloatStr(tenths) ==
    LET a == IF tenths < 0 THEN -tenths ELSE tenths
    IN  (IF tenths < 0 THEN "-" ELSE "") \o NatStr(a \div 10) \o "." \o DigitStr(a % 10)

\* str(ObjectId): the hexadecimal text of the identifier.
OidStr(gen, k) == "oid" \o gen \o NatStr(k)

\* the _id of the k-th finding that scan number r writes
PyFid(r, k) == PyVal("oid", k, "f" \o NatStr(r) \o "-", <<>>)

\* str(datetime)
DateStr(k) == "date" \o NatStr(k)

RECURSIVE JoinComma(_)
JoinComma(texts) ==
    IF texts = <<>> THEN ""
    ELSE IF Len(texts) = 1 THEN texts[1]
    ELSE texts[1] \o ", " \o JoinComma(Tail(texts))

\* str() of a value that is not a list; repr() differs from it on strings only.
ScalarStr(v) ==
    CASE v.t = "none"  -> "None"
      [] v.t = "bool"  -> IF v.n = 1 THEN "True" ELSE "False"
      [] v.t = "int"   -> IntStr(v.n)
      [] v.t = "float" -> FloatStr(v.n)
      [] v.t = "str"   -> v.s
      [] v.t = "oid"   -> OidStr(v.s, v.n)
      [] v.t = "date"  -> DateStr(v.n)
      [] OTHER         -> "[]"

ScalarRepr(v) == IF v.t = "str" THEN "'" \o v.s \o "'" ELSE ScalarStr(v)

\* Python's str(v).
str(v) ==
    IF v.t = "list"
    THEN "[" \o JoinComma([k \in 1..Len(v.l) |-> ScalarRepr(v.l[k])]) \o "]"
    ELSE ScalarStr(v)

Uppers == "ABCDEFGHIJKLMNOPQRSTUVWXYZ"
Lowers == "abcdefghijklmnopqrstuvwxyz"
LowerChar(c) ==
    IF \E k \in 1..26 : Char(Uppers, k) = c
    THEN Char(Lowers, CHOOSE k \in 1..26 : Char(Uppers, k) = c)
    ELSE c

RECURSIVE lower(_)
\* Python's s.lower().
lower(s) == IF s = "" THEN "" ELSE LowerChar(Char(s, 1)) \o lower(SubSeq(s, 2, Len(s)))

\* Python's `needle in hay` on str.
Substring(needle, hay) ==
    \E k \in 1..(Len(hay) - Len(needle) + 1) : SubSeq(hay, k, k + Len(needle) - 1) = needle

RECURSIVE Strip(_)
Strip(s) ==
    IF s # "" /\ Char(s, 1) = " " THEN Strip(SubSeq(s, 2, Len(s)))
    ELSE IF s # "" /\ Char(s, Len(s)) = " " THEN Strip(SubSeq(s, 1, Len(s) - 1))
    ELSE s

RECURSIVE DigitsVal(_)
DigitsVal(s) ==
    IF s = "" THEN 0 ELSE DigitsVal(SubSeq(s, 1, Len(s) - 1)) * 10 + DigitVal(Char(s, Len(s)))

RECURSIVE Pow10(_)
Pow10(k) == IF k = 0 THEN 1 ELSE 10 * Pow10(k - 1)

AllDigits(s) == \A k \in 1..Len(s) : IsDigit(Char(s, k))

NoNumber(exc) == [exc |-> exc, num |-> 0, den |-> 1]
Number(num, den) == [exc |-> "none", num |-> num, den |-> den]

\* float(str): surrounding blanks, a sign, digits with at most one point.  The
\* number is the fraction num/den.  (Exponents, "inf", "nan" and "_" are outside
\* the strings of this model.)
ParseFloat(s0) ==
    LET s1     == Strip(s0)
        signed == s1 # "" /\ Char(s1, 1) \in {"-", "+"}
        neg    == s1 # "" /\ Char(s1, 1) = "-"
        body   == IF signed THEN SubSeq(s1, 2, Len(s1)) ELSE s1
        dots   == {k \in 1..Len(body) : Char(body, k) = "."}
        dot    == IF dots = {} THEN Len(body) + 1 ELSE CHOOSE k \in dots : TRUE
        ip     == SubSeq(body, 1, dot - 1)
        fp     == SubSeq(body, dot + 1, Len(body))
        ok     == /\ Cardinality(dots) <= 1
                  /\ AllDigits(ip) /\ AllDigits(fp)
                  /\ Len(ip) + Len(fp) > 0
        mag    == DigitsVal(ip) * Pow10(Len(fp)) + DigitsVal(fp)
    IN  IF ok THEN Number(IF neg THEN -mag ELSE mag, Pow10(Len(fp)))
        ELSE NoNumber("ValueError")

\* Python's float(v): the number, or the exception float() raises.
float(v) ==
    CASE v.t \in {"bool", "int"} -> Number(v.n, 1)
      [] v.t = "float"           -> Number(v.n, 10)
      [] v.t = "str"             -> ParseFloat(v.s)
      [] OTHER                   -> NoNumber("TypeError")

NumLess(a, b) == a.num * b.den < b.num * a.den
NumEq(a, b)   == a.num * b.den = b.num * a.den

IsNumeric(v) == v.t \in {"bool", "int", "float"}

RECURSIVE PyEq(_, _)
\* Python's a == b: numbers (bool, int, float) compare by value, everything
\* else by type and content.
PyEq(a, b) ==
    IF IsNumeric(a) /\ IsNumeric(b) THEN NumEq(float(a), float(b))
    ELSE IF a.t # b.t THEN FALSE
    ELSE IF a.t = "list"
         THEN /\ Len(a.l) = Len(b.l)
              /\ \A k \in 1..Len(a.l) : PyEq(a.l[k], b.l[k])
    ELSE a = b

\* Python's `x in lst` for a list.
ListContains(lst, x) == \E k \in 1..Len(lst.l) : PyEq(x, lst.l[k])

\* bool(v): Python truthiness.
Truthy(v) ==
    CASE v.t = "none"  -> FALSE
      [] IsNumeric(v)  -> v.n # 0
      [] v.t = "str"   -> v.s # ""
      [] v.t = "list"  -> v.l # <<>>
      [] OTHER         -> TRUE

\* dict.get(key) / dict.get(key, default) with a str key.
DictGetOr(d, key, default) == IF key \in DOMAIN d THEN d[key] ELSE default
DictGet(d, key) == DictGetOr(d, key, PyNone)

\* A list cannot be hashed: using it as a dict key raises TypeError.
Unhashable(v) == v.t = "list"

\* resource.get(field) where field is any hashable Python value; the keys of a
\* stored document are strings.
ResourceGet(resource, field) ==
    IF field.t = "str" THEN DictGet(resource, field.s) ELSE PyNone

(***************************************************************************)
(* ScanEngine.evaluate_rule                                                *)
(***************************************************************************)
Returns(b) == [exc |-> "none", ret |-> b]
Raises(e)  == [exc |-> e, ret |-> FALSE]

\* line 28: if actual_value is None
FieldMissing(actual_value) == actual_value = PyNone

\* the except clause of lines 39, 44, 49, 54
CaughtByCompare == {"ValueError", "TypeError"}

\* lines 36-55: try: return float(actual) <op> float(expected) except ...: return False
CompareOp(op, actual_value, expected_value) ==
    LET a == float(actual_value)
        e == float(expected_value)
        raised == IF a.exc # "none" THEN a.exc ELSE e.exc
    IN  IF raised # "none"
        THEN IF raised \in CaughtByCompare THEN Returns(FALSE) ELSE Raises(raised)
        ELSE Returns(CASE op = "gt"  -> NumLess(e, a)
                       [] op = "lt"  -> NumLess(a, e)
                       [] op = "gte" -> ~NumLess(a, e)
                       [] op = "lte" -> ~NumLess(e, a))

\* eq as a comparison of the raw values, without str()
EqOp_raw(actual_value, expected_value) == PyEq(actual_value, expected_value)

\* lines 32-35
EqOp(actual_value, expected_value) == str(actual_value) = str(expected_value)

\* lines 56-59
ContainsOp(actual_value, expected_value) ==
    Substring(lower(str(expected_value)), lower(str(actual_value)))

\* lines 60-68: isinstance(expected_value, list) guards both operators
InOp(negated, actual_value, expected_value) ==
    IF expected_value.t = "list"
    THEN IF negated THEN ~ListContains(expected_value, actual_value)
                    ELSE ListContains(expected_value, actual_value)
    ELSE FALSE

\* lines 32-70: the operator dispatch; op is the Python value rule.get('op')
Dispatch(op, actual_value, expected_value) ==
    IF op.t # "str" THEN Returns(FALSE)
    ELSE CASE op.s = "eq"           -> Returns(EqOp(actual_value, expected_value))
           [] op.s = "neq"          -> Returns(~EqOp(actual_value, expected_value))
           [] op.s \in {"gt", "lt", "gte", "lte"}
                                    -> CompareOp(op.s, actual_value, expected_value)
           [] op.s = "contains"     -> Returns(ContainsOp(actual_value, expected_value))
           [] op.s = "not_contains" -> Returns(~ContainsOp(actual_value, expected_value))
           [] op.s = "in"           -> Returns(InOp(FALSE, actual_value, expected_value))
           [] op.s = "not_in"       -> Returns(InOp(TRUE, actual_value, expected_value))
           [] OTHER                 -> Returns(FALSE)

evaluate_rule(resource, rule) ==
    LET field          == DictGet(rule, "field")
        op             == DictGet(rule, "op")
        expected_value == DictGet(rule, "value")
    IN  IF Unhashable(field) THEN Raises("TypeError")
        ELSE LET actual_value == ResourceGet(resource, field)
             IN  IF FieldMissing(actual_value) THEN Returns(FALSE)
                 ELSE Dispatch(op, actual_value, expected_value)

(***************************************************************************)
(* The documents a client uploads.  The upload serializers accept any list *)
(* of open-schema maps (api/scanner/serializers.py: ListField of           *)
(* DictField), so neither the keys nor the types of the values are fixed.  *)
(***************************************************************************)
R_web ==
    [name |-> PyStr("web"), resource_type |-> PyStr("ec2"),
     region |-> PyStr("us"), status |-> PyStr("running")]
R_logs ==
    [name |-> PyStr("logs"), resource_type |-> PyStr("s3"),
     status |-> PyStr("running"), size |-> PyInt(1)]
R_old ==
    [name |-> PyStr("web"), resource_type |-> PyStr("ec2"),
     region |-> PyNone, status |-> PyNone]
\* The bodies of the uploadResources requests.
ResourceBatches == {<<>>, <<R_web>>, <<R_logs>>, <<R_old>>, <<R_logs, R_web>>}

Q_running ==
    [name |-> PyStr("is-running"), field |-> PyStr("status"), op |-> PyStr("eq"),
     value |-> PyStr("running"), severity |-> PyStr("HIGH"),
     resource_type |-> PyStr("")]
Q_s3 ==
    [name |-> PyStr("s3-up"), description |-> PyStr("bucket in use"),
     field |-> PyStr("status"), op |-> PyStr("neq"), value |-> PyStr("stopped"),
     resource_type |-> PyStr("s3")]
Q_bad ==
    [name |-> PyStr("bad"), field |-> PyList(<<PyStr("status")>>),
     op |-> PyStr("eq"), value |-> PyStr("running")]
\* a severity outside the five levels, a number compared with a number
Q_urgent ==
    [name |-> PyStr("big"), field |-> PyStr("size"), op |-> PyStr("gte"),
     value |-> PyFloat(10), severity |-> PyStr("URGENT")]
\* a severity that is not a string
Q_listed ==
    [name |-> PyStr("listed"), field |-> PyStr("status"), op |-> PyStr("eq"),
     value |-> PyStr("running"), severity |-> PyList(<<PyStr("HIGH")>>)]
\* The bodies of the uploadRules requests.
RuleBatches ==
    {<<>>, <<Q_running>>, <<Q_s3>>, <<Q_bad>>, <<Q_s3, Q_running>>, <<Q_urgent>>, <<Q_listed>>}

\* The filters of the delete endpoints (DeleteSerializer: any map).
FilterPool == {<<>>, [resource_type |-> PyStr("ec2")]}

\* the threads of the server that can run a request
Scanners == {"s1", "s2"}

\* The arguments of the direct calls of the repository.
ResourcePool == {R_web}
RulePool == {Q_running}
ResourceUpdates == {[status |-> PyStr("stopped")]}
RuleUpdates == {[severity |-> PyStr("LOW")]}
IdPool == {"oid1", "not-an-id"}

None == "None"
Handle == "handle"

(***************************************************************************)
(* db.py: MongoDBConnection and get_mongodb                                *)
(***************************************************************************)
\* What one connection attempt (lines 32-48) can come to: it succeeds, the
\* settings lack a key (lines 33-35), the ping times out or is refused
\* (line 47), or the ping fails in another way (line 47, e.g. authentication).
ConnectOutcomes == {"ok", "KeyError", "ServerSelectionTimeoutError", "OperationFailure"}

\* The adapter's fields where the try body stops, lines 32-48: the client is
\* assigned (line 40) before the ping, the database (line 48) after it.
Opened(conn, outcome) ==
    CASE outcome = "ok"       -> [client |-> Handle, db |-> Handle]
      [] outcome = "KeyError" -> conn
      [] OTHER                -> [conn EXCEPT !.client = Handle]

\* line 51: except (ConnectionFailure, ServerSelectionTimeoutError)
ConnectionFailures == {"ConnectionFailure", "ServerSelectionTimeoutError"}

\* handlers that leave out `except Exception`
Caught_narrow(exc) == exc \in ConnectionFailures
\* lines 51 and 55: the two handlers of connect() between them take every Exception
Caught(exc) == exc \in ConnectionFailures \/ exc \in ConnectOutcomes \ {"ok"}

\* A call of the adapter: the fields it leaves, the exception that leaves it
\* and the connection attempt it made, if any.
Kept(conn) == [client |-> conn.client, db |-> conn.db, exc |-> "none", tried |-> "none"]

\* connect() whose handlers do not reset the fields
connect_retaining(conn, outcome) ==
    IF conn.client # None THEN Kept(conn)
    ELSE [client |-> Opened(conn, outcome).client, db |-> Opened(conn, outcome).db,
          exc |-> "none", tried |-> outcome]
\* connect() that tries again although a client is held
connect_again(conn, outcome) ==
    IF outcome = "ok"
    THEN [client |-> Handle, db |-> Handle, exc |-> "none", tried |-> outcome]
    ELSE [client |-> None, db |-> None, exc |-> "none", tried |-> outcome]
\* connect(), lines 26-58
connect(conn, outcome) ==
    IF conn.client # None THEN Kept(conn)
    ELSE IF outcome = "ok"
    THEN [client |-> Handle, db |-> Handle, exc |-> "none", tried |-> outcome]
    ELSE IF Caught(outcome)
    THEN [client |-> None, db |-> None, exc |-> "none", tried |-> outcome]
    ELSE [client |-> Opened(conn, outcome).client, db |-> Opened(conn, outcome).db,
          exc |-> outcome, tried |-> outcome]

\* the db property, lines 60-65; it returns the db it leaves
db_property(conn, outcome) == IF conn.db = None THEN connect(conn, outcome) ELSE Kept(conn)

\* the client property, lines 67-72; it returns the client it leaves
client_property(conn, outcome) ==
    IF conn.client = None THEN connect(conn, outcome) ELSE Kept(conn)

\* get_mongodb(), lines 86-91: conn.db is read for the test of line 89 and
\* again for the return of line 91; attempt[1] and attempt[2] are what a
\* connection attempt comes to in the first and in the second read.
get_mongodb(conn, attempt) ==
    LET first == db_property(conn, attempt[1])
    IN  IF first.exc = "none" /\ first.db = None THEN db_property(first, attempt[2]) ELSE first

\* close() that resets the fields only when the client closed cleanly
close_unsafe(conn, io) ==
    IF conn.client = None THEN Kept(conn)
    ELSE IF io = "error"
    THEN [client |-> conn.client, db |-> conn.db, exc |-> "PyMongoError", tried |-> "none"]
    ELSE [client |-> None, db |-> None, exc |-> "none", tried |-> "none"]
\* close(), lines 74-83: `io` is whether the client's own close() raises
close(conn, io) ==
    IF conn.client = None THEN Kept(conn)
    ELSE [client |-> None, db |-> None, exc |-> "none", tried |-> "none"]

\* MongoDBConnection(), lines 13-20: every caller gets the one instance
Conn == [client |-> client, db |-> db]

\* get_collection that hands out a collection of no database
get_collection_raises_never(conn, attempt) == FALSE
\* BaseMongoModel.get_collection: raises RuntimeError when get_mongodb() is None
get_collection_raises(conn, attempt) == get_mongodb(conn, attempt).db = None

\* The connection attempts of a request: the server answers, is down for the
\* first read of conn.db only, or is down for both.
Attempts ==
    {<<"ok", "ok">>, <<"ServerSelectionTimeoutError", "ok">>,
     <<"ServerSelectionTimeoutError", "ServerSelectionTimeoutError">>}

\* What a repository call can come to: the collection handle could not be had
\* (RuntimeError), the driver's operation failed (a PyMongoError), or it ran.
CallOutcome(conn, attempt, io) ==
    LET got == get_mongodb(conn, attempt)
    IN  IF got.exc # "none" THEN got.exc
        ELSE IF get_collection_raises(conn, attempt) THEN "RuntimeError"
        ELSE IF io = "error" THEN "PyMongoError"
        ELSE "ok"

IoOutcomes == {"ok", "error"}

(***************************************************************************)
(* models.py: documents and the store's queries                            *)
(***************************************************************************)
Range(f) == {f[k] : k \in DOMAIN f}

\* d with d[key] = val (a dict assignment)
DictSet(d, key, val) == (key :> val) @@ d

\* BaseMongoModel.to_dict: the document with its _id turned into a string
to_dict(document) ==
    IF "_id" \in DOMAIN document
    THEN DictSet(document, "_id", PyStr(str(document["_id"])))
    ELSE document

to_dict_list(documents) == [k \in 1..Len(documents) |-> to_dict(documents[k])]

\* Equality as a MongoDB query sees it: numbers by value, booleans apart from
\* numbers, everything else by type and content.
MongoEq(a, b) ==
    IF a.t \in {"int", "float"} /\ b.t \in {"int", "float"}
    THEN (IF a.t = "float" THEN a.n ELSE 10 * a.n) = (IF b.t = "float" THEN b.n ELSE 10 * b.n)
    ELSE a = b

\* {key: val} of a filter: null matches a missing or null field, an array
\* field matches by any element, {'$regex': s, '$options': 'i'} matches a string
\* that holds s whatever the case (s without regex metacharacters).
FieldMatches(document, key, val) ==
    LET have == DictGet(document, key)
    IN  IF val.t = "regex"
        THEN have.t = "str" /\ Substring(lower(val.s), lower(have.s))
        ELSE \/ MongoEq(have, val)
             \/ have.t = "list" /\ \E k \in 1..Len(have.l) : MongoEq(have.l[k], val)

Matches(document, filter) == \A key \in DOMAIN filter : FieldMatches(document, key, filter[key])

Where(documents, filter) == SelectSeq(documents, LAMBDA d : Matches(d, filter))

\* Characters in code-point order, for the comparison of strings.
CodePoints == " '+,-.0123456789ABCDEFGHIJKLMNOPQRSTUVWXYZ[]_abcdefghijklmnopqrstuvwxyz"
Ord(c) == CHOOSE k \in 1..Len(CodePoints) : Char(CodePoints, k) = c

RECURSIVE StrLess(_, _)
StrLess(a, b) ==
    IF b = "" THEN FALSE
    ELSE IF a = "" THEN TRUE
    ELSE IF Char(a, 1) = Char(b, 1) THEN StrLess(SubSeq(a, 2, Len(a)), SubSeq(b, 2, Len(b)))
    ELSE Ord(Char(a, 1)) < Ord(Char(b, 1))

\* The BSON comparison order of types: null, numbers, strings, arrays,
\* ObjectId, booleans, dates.
TypeRank(v) ==
    CASE v.t = "none"             -> 1
      [] v.t \in {"int", "float"} -> 2
      [] v.t = "str"              -> 3
      [] v.t = "list"             -> 4
      [] v.t = "oid"              -> 5
      [] v.t = "bool"             -> 6
      [] OTHER                    -> 7

\* a sorts strictly before b
SortsBefore(a, b) ==
    IF TypeRank(a) # TypeRank(b) THEN TypeRank(a) < TypeRank(b)
    ELSE CASE a.t \in {"int", "float"} -> NumLess(float(a), float(b))
           [] a.t = "str" -> StrLess(a.s, b.s)
           [] OTHER       -> a.n < b.n

\* The orders .sort(sort_by, direction) can return: documents with equal keys
\* come in an order the store does not fix.
SortedOrders(documents, sort_by, direction) ==
    LET n == Len(documents)
        key(k) == DictGet(documents[k], sort_by)
        inOrder(a, b) == IF direction = 1 THEN ~SortsBefore(key(b), key(a))
                                          ELSE ~SortsBefore(key(a), key(b))
        sorted == {q \in Permutations(1..n) : \A k \in 1..(n - 1) : inOrder(q[k], q[k + 1])}
    IN  {[k \in 1..n |-> documents[q[k]]] : q \in sorted}

Min(a, b) == IF a < b THEN a ELSE b

\* cursor.skip(skip).limit(limit)
Page(documents, skip, limit) == SubSeq(documents, skip + 1, Min(skip + limit, Len(documents)))

\* Resource.find_all, lines 68-72: the query sent to the store
find_all_query(filter_dict, search_str) ==
    IF Truthy(search_str) THEN DictSet(filter_dict, "name", PyRegex(search_str.s))
    ELSE filter_dict

\* Resource.find_all, lines 75-86, for one of the orders the sort can return
Resource_find_all(ordered, skip, limit) ==
    [data        |-> to_dict_list(Page(ordered, skip, limit)),
     total       |-> Len(ordered),
     page_size   |-> limit,
     page_number |-> (skip \div limit) + 1]

\* a find_all that reads one document only
find_all_first(collection) == to_dict_list(SubSeq(collection, 1, Min(1, Len(collection))))
\* Rule.find_all and Finding.find_all: find({}) in natural order
find_all(collection) == to_dict_list(collection)

\* datetime.utcnow()
utcnow == PyDate(clock)

\* insert_one / insert_many give a document without _id a fresh ObjectId
WithId(document, oid) ==
    IF "_id" \in DOMAIN document THEN document ELSE DictSet(document, "_id", oid)

\* Resource.bulk_create / Rule.bulk_create, lines 58-61: the documents inserted
bulk_create_docs(records) ==
    [k \in 1..Len(records) |->
        WithId(DictSet(DictSet(records[k], "created_at", utcnow), "updated_at", utcnow),
               PyOid(nextOid + k - 1))]

\* bson.ObjectId(s): the strings that are the text of an ObjectId, and the
\* ObjectId such a string stands for; any other string raises InvalidId.
IsObjectId(x) == \E k \in 0..9 : x = OidStr("", k)
ObjectId(x) == PyOid(CHOOSE k \in 0..9 : x = OidStr("", k))

\* the places of the documents of `collection` whose _id is ObjectId(id)
WithObjectId(collection, id) ==
    {k \in 1..Len(collection) : MongoEq(collection[k]["_id"], ObjectId(id))}
First(places) == CHOOSE k \in places : \A other \in places : k <= other

\* Resource.create / Rule.create, lines 47-51: the document inserted
create_doc(data) ==
    WithId(DictSet(DictSet(data, "created_at", utcnow), "updated_at", utcnow), PyOid(nextOid))

\* find_one({'_id': ObjectId(id)}) and to_dict, lines 91-93: None when no
\* document has that _id
find_by_id(collection, id) ==
    IF WithObjectId(collection, id) = {} THEN None
    ELSE to_dict(collection[First(WithObjectId(collection, id))])

\* an update that stores update_data in place of the document
SetFields_replace(document, update_data) ==
    [key \in {"_id"} \cup DOMAIN update_data |->
        IF key \in DOMAIN update_data THEN update_data[key] ELSE document[key]]
\* {'$set': update_data} on one document
SetFields(document, update_data) ==
    [key \in DOMAIN document \cup DOMAIN update_data |->
        IF key \in DOMAIN update_data THEN update_data[key] ELSE document[key]]

\* update_one({'_id': ObjectId(id)}, {'$set': update_data}), lines 98-103,
\* with update_data stamped by line 98: the collection it leaves
update_one(collection, id, update_data) ==
    IF WithObjectId(collection, id) = {} THEN collection
    ELSE [collection EXCEPT ![First(WithObjectId(collection, id))] =
              SetFields(@, DictSet(update_data, "updated_at", utcnow))]

\* delete_one({'_id': ObjectId(id)}), line 110: the collection it leaves
delete_one(collection, id) ==
    IF WithObjectId(collection, id) = {} THEN collection
    ELSE [k \in 1..(Len(collection) - 1) |->
              IF k < First(WithObjectId(collection, id)) THEN collection[k]
              ELSE collection[k + 1]]

\* delete_many(filter): what stays
delete_many(collection, filter) == SelectSeq(collection, LAMBDA d : ~Matches(d, filter))

\* clear_all that deletes nothing
clear_all_keeps(collection) == collection

\* clear_all as delete_one({}): only the first document goes
clear_all_one(collection) == IF collection = <<>> THEN <<>> ELSE Tail(collection)

\* Finding.clear_all: delete_many({})
clear_all(collection) == delete_many(collection, <<>>)

\* Finding.create, lines 195-197: the document inserted
Finding_create_doc(finding_data, oid) ==
    WithId(DictSet(finding_data, "created_at", utcnow), oid)

(***************************************************************************)
(* models.py: the aggregations of Finding                                  *)
(***************************************************************************)
\* The $group stage with {'$sum': 1}: one result per distinct key, the key of a
\* document without the field being null.  `keys` holds the key of each input
\* document; numbers of equal value fall into one group, named by the first.
FirstLike(keys, k) ==
    CHOOSE j \in 1..k : /\ MongoEq(keys[j], keys[k])
                        /\ \A h \in 1..(j - 1) : ~MongoEq(keys[h], keys[k])
GroupSize(keys, k) == Cardinality({h \in 1..Len(keys) : MongoEq(keys[h], keys[k])})
Group(keys) ==
    {[_id |-> keys[FirstLike(keys, k)], count |-> GroupSize(keys, k)] : k \in 1..Len(keys)}

\* The lists a cursor can give for a set of results: the store fixes no order.
Orders(results) ==
    {q \in [1..Cardinality(results) -> results] :
        \A a, b \in 1..Cardinality(results) : a # b => q[a] # q[b]}

Severities == {"CRITICAL", "HIGH", "MEDIUM", "LOW", "INFO"}

\* lines 237-240 on one result: `severity in severity_counts` hashes the key
SeverityRaises(result) == Truthy(result["_id"]) /\ Unhashable(result["_id"])

\* Finding.get_severity_summary, lines 218-242, on the findings collection
get_severity_summary(collection) ==
    LET results == Group([k \in 1..Len(collection) |-> DictGet(collection[k], "severity")])
    IN  IF \E r \in results : SeverityRaises(r)
        THEN [exc |-> "TypeError", ret |-> <<>>]
        ELSE [exc |-> "none",
              ret |-> [sev \in Severities |->
                          IF \E r \in results : r["_id"] = PyStr(sev)
                          THEN (CHOOSE r \in results : r["_id"] = PyStr(sev)).count
                          ELSE 0]]

\* Finding.get_by_resource_type, lines 247-257, for one order of the results
get_by_resource_type(collection) ==
    LET results == Group([k \in 1..Len(collection) |-> DictGet(collection[k], "resource_type")])
    IN  {[k \in 1..Len(q) |-> [resource_type |-> q[k]["_id"], count |-> q[k].count]] :
            q \in Orders(results)}

\* $lookup, lines 265-270: the documents of `from` whose foreignField equals
\* the localField of the finding
Lookup(finding, from) ==
    SelectSeq(from, LAMBDA d : MongoEq(DictGet(d, "_id"), DictGet(finding, "resource_id")))

\* $unwind with preserveNullAndEmptyArrays false: a finding without a match is dropped
Unwind_dropping(matches) == [k \in 1..Len(matches) |-> [resource |-> matches[k]]]

\* $unwind, lines 273-276: one row per match, and one row without `resource`
\* for a finding that matched nothing
Unwind(matches) ==
    IF matches = <<>> THEN << <<>> >>
    ELSE [k \in 1..Len(matches) |-> [resource |-> matches[k]]]

RECURSIVE Flatten(_)
Flatten(seqs) == IF seqs = <<>> THEN <<>> ELSE Head(seqs) \o Flatten(Tail(seqs))

\* '$resource.region' of a row: null where the row has no resource or no region
RowRegion(row) ==
    IF "resource" \in DOMAIN row THEN DictGet(row["resource"], "region") ELSE PyNone

\* line 286: r['_id'] or 'unknown'
OrUnknown(v) == IF Truthy(v) THEN v ELSE PyStr("unknown")

\* Finding.get_by_region, lines 262-286, for every order of the results
get_by_region(collection, from) ==
    LET rows    == Flatten([k \in 1..Len(collection) |-> Unwind(Lookup(collection[k], from))])
        results == Group([k \in 1..Len(rows) |-> RowRegion(rows[k])])
    IN  {[k \in 1..Len(q) |-> [region |-> OrUnknown(q[k]["_id"]), count |-> q[k].count]] :
            q \in Orders(results)}

(***************************************************************************)
(* engine.py: scan_all_resources                                           *)
(***************************************************************************)
ScanLimit == 10000

\* the type filter without its `rule_resource_type and` guard
TypeSkipped_unguarded(resource, rule) ==
    ~PyEq(DictGet(resource, "resource_type"), DictGet(rule, "resource_type"))

\* a scan without the type filter
TypeSkipped_never(resource, rule) == FALSE

\* lines 100-101: the rule does not apply to this resource's type
TypeSkipped(resource, rule) ==
    LET rule_resource_type == DictGet(rule, "resource_type")
    IN  /\ Truthy(rule_resource_type)
        /\ ~PyEq(DictGet(resource, "resource_type"), rule_resource_type)

\* finding_data with the rule's severity taken as it is, without a default
finding_data_nodefault(resource, rule) ==
    [resource_id      |-> resource["_id"],
     resource_name    |-> DictGetOr(resource, "name", PyStr("Unknown")),
     resource_type    |-> DictGetOr(resource, "resource_type", PyStr("Unknown")),
     rule_name        |-> DictGetOr(rule, "name", PyStr("Unknown Rule")),
     rule_description |-> DictGetOr(rule, "description", PyStr("")),
     severity         |-> DictGet(rule, "severity"),
     field            |-> DictGet(rule, "field"),
     actual_value     |-> PyStr(str(ResourceGet(resource, DictGet(rule, "field")))),
     expected_value   |-> PyStr(str(DictGet(rule, "value"))),
     operator         |-> DictGet(rule, "op")]

\* lines 107-118
finding_data(resource, rule) ==
    [resource_id      |-> resource["_id"],
     resource_name    |-> DictGetOr(resource, "name", PyStr("Unknown")),
     resource_type    |-> DictGetOr(resource, "resource_type", PyStr("Unknown")),
     rule_name        |-> DictGetOr(rule, "name", PyStr("Unknown Rule")),
     rule_description |-> DictGetOr(rule, "description", PyStr("")),
     severity         |-> DictGetOr(rule, "severity", PyStr("MEDIUM")),
     field            |-> DictGet(rule, "field"),
     actual_value     |-> PyStr(str(ResourceGet(resource, DictGet(rule, "field")))),
     expected_value   |-> PyStr(str(DictGet(rule, "value"))),
     operator         |-> DictGet(rule, "op")]

\* rules_evaluated counted only for the pairs that pass the type filter
NextRule_afterFilter(frame) ==
    [frame EXCEPT !.j = @ + 1,
                  !.rules_evaluated =
                      IF TypeSkipped(frame.resources[frame.i], frame.rules[frame.j + 1])
                      THEN @ ELSE @ + 1]

\* lines 96-97: the loop takes the next rule and counts it
NextRule(frame) == [frame EXCEPT !.j = @ + 1, !.rules_evaluated = @ + 1]

IdleFrame ==
    [pc |-> "idle", resources |-> <<>>, rules |-> <<>>, i |-> 0, j |-> 0,
     findings_created |-> 0, resources_scanned |-> 0, rules_evaluated |-> 0, run |-> 0]

Running(p) == scan[p].pc \in {"load_resources", "load_rules", "for_resource", "for_rule"}
NoScanRunning == \A p \in Scanners : ~Running(p)

NoResults == [resources_scanned |-> 0, rules_evaluated |-> 0, findings_created |-> 0]
Response(op, status, count, results) ==
    [op |-> op, status |-> status, count |-> count, results |-> results, error |-> "none"]
\* The view catches nothing: an exception of the call ends the request.
Failure(op, error) ==
    [op |-> op, status |-> 500, count |-> 0, results |-> NoResults, error |-> error]
NoResponse == Response("none", 0, 0, NoResults)

NoReturn == [valid |-> FALSE, run |-> 0, findings_created |-> 0, content |-> <<>>]

\* An exception leaves scan_all_resources and the view: the request fails.
\* a scan that catches the error and answers as if it had succeeded
ScanRaises_swallowed(p, error) ==
    /\ scan' = [scan EXCEPT ![p].pc = "raised"]
    /\ resp' = [Failure("scan", error) EXCEPT !.status = 200]
    /\ lastReturn' = NoReturn
    /\ prevReturn' = NoReturn

ScanRaises(p, error) ==
    /\ scan' = [scan EXCEPT ![p].pc = "raised"]
    /\ resp' = Failure("scan", error)
    /\ lastReturn' = NoReturn
    /\ prevReturn' = NoReturn

\* A finding without what the store assigns (_id) and the time stamp.
Content(finding) == [k \in DOMAIN finding \ {"_id", "created_at"} |-> finding[k]]
BagOf(documents) ==
    LET c == [k \in 1..Len(documents) |-> Content(documents[k])]
    IN  [d \in Range(c) |-> Cardinality({k \in 1..Len(c) : c[k] = d})]

\* line 81: Finding.clear_all()
ScanClear(p, attempt, io) ==
    /\ scan[p].pc = "idle"
    /\ run < MaxRuns
    /\ run' = run + 1
    /\ client' = get_mongodb(Conn, attempt).client
    /\ db' = get_mongodb(Conn, attempt).db
    /\ IF CallOutcome(Conn, attempt, io) = "ok"
       THEN /\ findings' = clear_all(findings)
            /\ origin' = {o \in origin : \E k \in 1..Len(findings') : findings'[k]["_id"] = o.fid}
            /\ lastClear' = run + 1
            /\ scan' = [scan EXCEPT ![p] = [IdleFrame EXCEPT !.pc = "load_resources", !.run = run + 1]]
            /\ UNCHANGED <<resp, lastReturn, prevReturn>>
       ELSE /\ scan' = [scan EXCEPT ![p] = [IdleFrame EXCEPT !.pc = "raised", !.run = run + 1]]
            /\ resp' = Failure("scan", CallOutcome(Conn, attempt, io))
            /\ lastReturn' = NoReturn
            /\ prevReturn' = NoReturn
            /\ UNCHANGED <<findings, origin, lastClear>>
    /\ UNCHANGED <<resources, rules, nextOid, clock, evaluated, evalVars, closed>>

\* lines 84-85: Resource.find_all(limit=10000)['data']
ScanLoadResources(p, attempt, io) ==
    /\ scan[p].pc = "load_resources"
    /\ client' = get_mongodb(Conn, attempt).client
    /\ db' = get_mongodb(Conn, attempt).db
    /\ IF CallOutcome(Conn, attempt, io) = "ok"
       THEN /\ \E ordered \in SortedOrders(Where(resources, find_all_query(<<>>, PyNone)), "name", 1) :
                 scan' = [scan EXCEPT ![p].resources = Resource_find_all(ordered, 0, ScanLimit).data,
                                      ![p].pc = "load_rules"]
            /\ UNCHANGED <<resp, lastReturn, prevReturn>>
       ELSE ScanRaises(p, CallOutcome(Conn, attempt, io))
    /\ UNCHANGED <<storeVars, run, evaluated, origin, lastClear, evalVars, closed>>

\* line 86: Rule.find_all()
ScanLoadRules(p, attempt, io) ==
    /\ scan[p].pc = "load_rules"
    /\ client' = get_mongodb(Conn, attempt).client
    /\ db' = get_mongodb(Conn, attempt).db
    /\ IF CallOutcome(Conn, attempt, io) = "ok"
       THEN /\ scan' = [scan EXCEPT ![p].rules = find_all(rules), ![p].pc = "for_resource"]
            /\ UNCHANGED <<resp, lastReturn, prevReturn>>
       ELSE ScanRaises(p, CallOutcome(Conn, attempt, io))
    /\ UNCHANGED <<storeVars, run, evaluated, origin, lastClear, evalVars, closed>>

\* a scan that reports the number of findings it finds in the collection
ScanForResource_counting(p) ==
    /\ scan[p].pc = "for_resource"
    /\ IF scan[p].i < Len(scan[p].resources)
       THEN /\ scan' = [scan EXCEPT ![p].i = @ + 1, ![p].j = 0,
                                    ![p].resources_scanned = @ + 1,
                                    ![p].pc = "for_rule"]
            /\ UNCHANGED <<resp, lastReturn, prevReturn>>
       ELSE /\ scan' = [scan EXCEPT ![p].pc = "returned"]
            /\ resp' = Response("scan", 200, 0,
                                [resources_scanned |-> scan[p].resources_scanned,
                                 rules_evaluated   |-> scan[p].rules_evaluated,
                                 findings_created  |-> Len(findings)])
            /\ prevReturn' = lastReturn
            /\ lastReturn' = [valid |-> TRUE, run |-> scan[p].run,
                              findings_created |-> Len(findings),
                              content |-> BagOf(findings)]
    /\ UNCHANGED <<storeVars, connVars, run, evaluated, origin, lastClear, evalVars, closed>>

\* a scan that walks the loaded resources from the last to the first
ScanForResource_reversed(p) ==
    /\ scan[p].pc = "for_resource"
    /\ IF (scan[p].i = 0 /\ scan[p].resources # <<>>) \/ scan[p].i > 1
       THEN /\ scan' = [scan EXCEPT ![p].i = IF @ = 0 THEN Len(scan[p].resources) ELSE @ - 1,
                                    ![p].j = 0,
                                    ![p].resources_scanned = @ + 1,
                                    ![p].pc = "for_rule"]
            /\ UNCHANGED <<resp, lastReturn, prevReturn>>
       ELSE /\ scan' = [scan EXCEPT ![p].pc = "returned"]
            /\ resp' = Response("scan", 200, 0,
                                [resources_scanned |-> scan[p].resources_scanned,
                                 rules_evaluated   |-> scan[p].rules_evaluated,
                                 findings_created  |-> scan[p].findings_created])
            /\ prevReturn' = lastReturn
            /\ lastReturn' = [valid |-> TRUE, run |-> scan[p].run,
                              findings_created |-> scan[p].findings_created,
                              content |-> BagOf(findings)]
    /\ UNCHANGED <<storeVars, connVars, run, evaluated, origin, lastClear, evalVars, closed>>

\* lines 93-94 and 122-126: the next resource, or the return of the counters
ScanForResource(p) ==
    /\ scan[p].pc = "for_resource"
    /\ IF scan[p].i < Len(scan[p].resources)
       THEN /\ scan' = [scan EXCEPT ![p].i = @ + 1, ![p].j = 0,
                                    ![p].resources_scanned = @ + 1,
                                    ![p].pc = "for_rule"]
            /\ UNCHANGED <<resp, lastReturn, prevReturn>>
       ELSE /\ scan' = [scan EXCEPT ![p].pc = "returned"]
            /\ resp' = Response("scan", 200, 0,
                                [resources_scanned |-> scan[p].resources_scanned,
                                 rules_evaluated   |-> scan[p].rules_evaluated,
                                 findings_created  |-> scan[p].findings_created])
            /\ prevReturn' = lastReturn
            /\ lastReturn' = [valid |-> TRUE, run |-> scan[p].run,
                              findings_created |-> scan[p].findings_created,
                              content |-> BagOf(findings)]
    /\ UNCHANGED <<storeVars, connVars, run, evaluated, origin, lastClear, evalVars, closed>>

\* lines 96-120: one rule against the current resource
ScanForRule(p, attempt, io) ==
    /\ scan[p].pc = "for_rule"
    /\ IF scan[p].j = Len(scan[p].rules)
       THEN /\ scan' = [scan EXCEPT ![p].pc = "for_resource"]
            /\ UNCHANGED <<storeVars, connVars, resp, evaluated, origin, lastReturn, prevReturn>>
       ELSE LET resource == scan[p].resources[scan[p].i]
                rule     == scan[p].rules[scan[p].j + 1]
                counted  == [scan EXCEPT ![p] = NextRule(scan[p])]
                pair     == [run |-> scan[p].run, rid |-> resource["_id"], qid |-> rule["_id"]]
                oid      == PyFid(scan[p].run, scan[p].findings_created + 1)
            IN  IF TypeSkipped(resource, rule)
                THEN /\ scan' = counted
                     /\ UNCHANGED <<storeVars, connVars, resp, evaluated, origin, lastReturn, prevReturn>>
                ELSE /\ evaluated' = evaluated \cup {pair}
                     /\ IF evaluate_rule(resource, rule).exc # "none"
                        THEN /\ scan' = [counted EXCEPT ![p].pc = "raised"]
                             /\ resp' = Failure("scan", evaluate_rule(resource, rule).exc)
                             /\ lastReturn' = NoReturn
                             /\ prevReturn' = NoReturn
                             /\ UNCHANGED <<storeVars, connVars, origin>>
                        ELSE IF evaluate_rule(resource, rule).ret
                        THEN /\ client' = get_mongodb(Conn, attempt).client
                             /\ db' = get_mongodb(Conn, attempt).db
                             /\ IF CallOutcome(Conn, attempt, io) = "ok"
                                THEN /\ findings' = Append(findings, Finding_create_doc(finding_data(resource, rule), oid))
                                     /\ origin' = origin \cup {[fid |-> oid, run |-> pair.run,
                                                                rid |-> pair.rid, qid |-> pair.qid]}
                                     /\ scan' = [counted EXCEPT ![p].findings_created = @ + 1]
                                     /\ UNCHANGED <<resources, rules, nextOid, clock, resp,
                                                    lastReturn, prevReturn>>
                                ELSE /\ scan' = [counted EXCEPT ![p].pc = "raised"]
                                     /\ resp' = Failure("scan", CallOutcome(Conn, attempt, io))
                                     /\ lastReturn' = NoReturn
                                     /\ prevReturn' = NoReturn
                                     /\ UNCHANGED <<storeVars, origin>>
                        ELSE /\ scan' = counted
                             /\ UNCHANGED <<storeVars, connVars, resp, origin, lastReturn, prevReturn>>
    /\ UNCHANGED <<run, lastClear, evalVars, closed>>

(***************************************************************************)
(* views.py: the upload and delete endpoints                               *)
(***************************************************************************)
\* A request is taken up when the one before it has been answered.  The model
\* follows the server until its MaxRuns-th scan has been answered.
Ready == resp = NoResponse /\ NoScanRunning /\ run < MaxRuns

\* insert_many(documents) raises TypeError on an empty list of documents
InsertManyOutcome(documents, io) ==
    IF documents = <<>> THEN "TypeError"
    ELSE IF io = "error" THEN "PyMongoError"
    ELSE "ok"

\* bulk_create on `collection` (resources or rules): get_collection, the
\* stamps, insert_many.
BulkCreate(op, collection, batch, attempt, io) ==
    /\ Ready
    /\ nextOid + Len(batch) - 1 <= MaxOid
    /\ client' = get_mongodb(Conn, attempt).client
    /\ db' = get_mongodb(Conn, attempt).db
    /\ IF ~get_collection_raises(Conn, attempt) /\ InsertManyOutcome(batch, io) = "ok"
       THEN /\ collection' = collection \o bulk_create_docs(batch)
            /\ nextOid' = nextOid + Len(batch)
            /\ clock' = clock + 1
            /\ lastReturn' = NoReturn
            /\ prevReturn' = NoReturn
            /\ resp' = Response(op, 201, Len(batch), NoResults)
       ELSE /\ resp' = Failure(op, IF get_collection_raises(Conn, attempt)
                                      THEN "RuntimeError" ELSE InsertManyOutcome(batch, io))
            /\ UNCHANGED <<collection, nextOid, clock, lastReturn, prevReturn>>
    /\ UNCHANGED <<findings, scan, run, evaluated, origin, lastClear, evalVars, closed>>

\* upload_resources, lines 47-57
UploadResources(batch, attempt, io) ==
    /\ BulkCreate("uploadResources", resources, batch, attempt, io)
    /\ UNCHANGED rules

\* upload_rules, lines 135-145
UploadRules(batch, attempt, io) ==
    /\ BulkCreate("uploadRules", rules, batch, attempt, io)
    /\ UNCHANGED resources

\* bulk_delete that takes the findings along with the documents it deletes
BulkDelete_cascade(op, collection, filter, attempt, io) ==
    /\ Ready
    /\ client' = get_mongodb(Conn, attempt).client
    /\ db' = get_mongodb(Conn, attempt).db
    /\ IF CallOutcome(Conn, attempt, io) = "ok"
       THEN /\ collection' = delete_many(collection, filter)
            /\ findings' = IF collection' # collection THEN <<>> ELSE findings
            /\ lastReturn' = IF collection' # collection THEN NoReturn ELSE lastReturn
            /\ prevReturn' = IF collection' # collection THEN NoReturn ELSE prevReturn
            /\ resp' = Response(op, 200, Len(collection) - Len(collection'), NoResults)
       ELSE /\ resp' = Failure(op, CallOutcome(Conn, attempt, io))
            /\ UNCHANGED <<collection, findings, lastReturn, prevReturn>>
    /\ UNCHANGED <<nextOid, clock, scan, run, evaluated, origin, lastClear, evalVars, closed>>

\* bulk_delete on `collection`: get_collection, delete_many(filter)
BulkDelete(op, collection, filter, attempt, io) ==
    /\ Ready
    /\ client' = get_mongodb(Conn, attempt).client
    /\ db' = get_mongodb(Conn, attempt).db
    /\ IF CallOutcome(Conn, attempt, io) = "ok"
       THEN /\ collection' = delete_many(collection, filter)
            /\ lastReturn' = IF collection' # collection THEN NoReturn ELSE lastReturn
            /\ prevReturn' = IF collection' # collection THEN NoReturn ELSE prevReturn
            /\ resp' = Response(op, 200, Len(collection) - Len(collection'), NoResults)
       ELSE /\ resp' = Failure(op, CallOutcome(Conn, attempt, io))
            /\ UNCHANGED <<collection, lastReturn, prevReturn>>
    /\ UNCHANGED <<findings, nextOid, clock, scan, run, evaluated, origin, lastClear, evalVars, closed>>

\* delete_resources, lines 110-120
DeleteResources(filter, attempt, io) ==
    /\ BulkDelete("deleteResources", resources, filter, attempt, io)
    /\ UNCHANGED rules

\* delete_rules, lines 160-170
DeleteRules(filter, attempt, io) ==
    /\ BulkDelete("deleteRules", rules, filter, attempt, io)
    /\ UNCHANGED resources

\* A view that reads the findings: get_collection, the query, the response.
\* `outcome` is what the repository call does once it has the collection.
FindingQuery(op, outcome, attempt, io) ==
    /\ Ready
    /\ client' = get_mongodb(Conn, attempt).client
    /\ db' = get_mongodb(Conn, attempt).db
    /\ resp' = IF CallOutcome(Conn, attempt, io) # "ok"
               THEN Failure(op, CallOutcome(Conn, attempt, io))
               ELSE IF outcome.exc # "none" THEN Failure(op, outcome.exc)
               ELSE Response(op, 200, 0, outcome.ret)
    /\ UNCHANGED <<storeVars, scan, histVars, evalVars, closed>>

\* list_findings, lines 186-189
ListFindings(attempt, io) ==
    FindingQuery("listFindings", Returns(find_all(findings)), attempt, io)

\* get_severity_status, lines 224-227
GetSeverityStatus(attempt, io) ==
    FindingQuery("getSeverityStatus", get_severity_summary(findings), attempt, io)

\* get_issues_by_resource_type, lines 243-246
GetIssuesByResourceType(attempt, io) ==
    \E results \in get_by_resource_type(findings) :
        FindingQuery("getIssuesByResourceType", Returns(results), attempt, io)

\* get_issues_by_region, lines 262-265
GetIssuesByRegion(attempt, io) ==
    \E results \in get_by_region(findings, resources) :
        FindingQuery("getIssuesByRegion", Returns(results), attempt, io)

(***************************************************************************)
(* models.py: the single-document operations, called directly              *)
(***************************************************************************)
\* What a direct call came to: the value it returned or the exception that
\* left it, and for a call of the adapter the connection attempt it made.
Returned(op, value) ==
    [op |-> op, status |-> 0, count |-> 0, results |-> NoResults, error |-> "none",
     value |-> value, tried |-> "none"]
Raised(op, error) ==
    [op |-> op, status |-> 0, count |-> 0, results |-> NoResults, error |-> error,
     value |-> None, tried |-> "none"]

\* A call that builds ObjectId(id) once it has the collection and before it
\* goes to the store.
ByIdOutcome(conn, attempt, id, io) ==
    IF CallOutcome(conn, attempt, "ok") # "ok" THEN CallOutcome(conn, attempt, "ok")
    ELSE IF ~IsObjectId(id) THEN "InvalidId"
    ELSE IF io = "error" THEN "PyMongoError"
    ELSE "ok"

\* create on `collection` (resources or rules): get_collection, the stamps,
\* insert_one, to_dict.
Create(op, collection, data, attempt, io) ==
    /\ Ready
    /\ nextOid <= MaxOid
    /\ client' = get_mongodb(Conn, attempt).client
    /\ db' = get_mongodb(Conn, attempt).db
    /\ IF CallOutcome(Conn, attempt, io) = "ok"
       THEN /\ collection' = Append(collection, create_doc(data))
            /\ nextOid' = nextOid + 1
            /\ clock' = clock + 1
            /\ lastReturn' = NoReturn
            /\ prevReturn' = NoReturn
            /\ resp' = Returned(op, to_dict(create_doc(data)))
       ELSE /\ resp' = Raised(op, CallOutcome(Conn, attempt, io))
            /\ UNCHANGED <<collection, nextOid, clock, lastReturn, prevReturn>>
    /\ UNCHANGED <<findings, scan, run, evaluated, origin, lastClear, evalVars, closed>>

\* Resource.create, lines 44-52
ResourceCreate(data, attempt, io) ==
    /\ Create("Resource.create", resources, data, attempt, io)
    /\ UNCHANGED rules

\* Rule.create, lines 126-134
RuleCreate(data, attempt, io) ==
    /\ Create("Rule.create", rules, data, attempt, io)
    /\ UNCHANGED resources

\* find_by_id on `collection`: get_collection, ObjectId(id), find_one, to_dict
FindById(op, collection, id, attempt, io) ==
    /\ Ready
    /\ client' = get_mongodb(Conn, attempt).client
    /\ db' = get_mongodb(Conn, attempt).db
    /\ resp' = IF ByIdOutcome(Conn, attempt, id, io) = "ok"
               THEN Returned(op, find_by_id(collection, id))
               ELSE Raised(op, ByIdOutcome(Conn, attempt, id, io))
    /\ UNCHANGED <<storeVars, scan, histVars, evalVars, closed>>

\* Resource.find_by_id, lines 88-93
ResourceFindById(id, attempt, io) == FindById("Resource.find_by_id", resources, id, attempt, io)

\* Rule.find_by_id, lines 153-158
RuleFindById(id, attempt, io) == FindById("Rule.find_by_id", rules, id, attempt, io)

\* A call that changes one document of `collection`: get_collection,
\* ObjectId(id), the store's operation, whether it changed anything.  What it
\* came to keeps the arguments of the call.
ChangeOne(op, collection, id, update_data, after, attempt, io) ==
    /\ Ready
    /\ client' = get_mongodb(Conn, attempt).client
    /\ db' = get_mongodb(Conn, attempt).db
    /\ IF ByIdOutcome(Conn, attempt, id, io) = "ok"
       THEN /\ collection' = after
            /\ lastReturn' = IF collection' # collection THEN NoReturn ELSE lastReturn
            /\ prevReturn' = IF collection' # collection THEN NoReturn ELSE prevReturn
            /\ resp' = [request |-> [id |-> id, update_data |-> update_data]]
                           @@ Returned(op, collection' # collection)
       ELSE /\ resp' = Raised(op, ByIdOutcome(Conn, attempt, id, io))
            /\ UNCHANGED <<collection, lastReturn, prevReturn>>
    /\ UNCHANGED <<findings, nextOid, clock, scan, run, evaluated, origin, lastClear, evalVars, closed>>

\* Resource.update, lines 95-104
ResourceUpdate(id, update_data, attempt, io) ==
    /\ ChangeOne("Resource.update", resources, id, update_data,
                 update_one(resources, id, update_data), attempt, io)
    /\ UNCHANGED rules

\* Rule.update, lines 160-169
RuleUpdate(id, update_data, attempt, io) ==
    /\ ChangeOne("Rule.update", rules, id, update_data,
                 update_one(rules, id, update_data), attempt, io)
    /\ UNCHANGED resources

\* Resource.delete, lines 106-111
ResourceDelete(id, attempt, io) ==
    /\ ChangeOne("Resource.delete", resources, id, <<>>, delete_one(resources, id), attempt, io)
    /\ UNCHANGED rules

\* Rule.delete, lines 171-176
RuleDelete(id, attempt, io) ==
    /\ ChangeOne("Rule.delete", rules, id, <<>>, delete_one(rules, id), attempt, io)
    /\ UNCHANGED resources

(***************************************************************************)
(* db.py: the adapter, called directly                                     *)
(***************************************************************************)
\* A call of the adapter that leaves it as `after` and returns `value`.
AdapterCall(op, after, value) ==
    /\ Ready
    /\ client' = after.client
    /\ db' = after.db
    /\ resp' = [op |-> op, status |-> 0, count |-> 0, results |-> NoResults,
                error |-> after.exc, value |-> IF after.exc = "none" THEN value ELSE None,
                tried |-> after.tried]
    /\ UNCHANGED <<storeVars, scan, histVars, evalVars>>

\* conn.connect()
Connect(outcome) ==
    /\ AdapterCall("connect", connect(Conn, outcome), None)
    /\ UNCHANGED closed

\* get_mongodb()
GetDatabase(attempt) ==
    /\ AdapterCall("get_database", get_mongodb(Conn, attempt), get_mongodb(Conn, attempt).db)
    /\ UNCHANGED closed

\* conn.client
GetClient(outcome) ==
    /\ AdapterCall("client", client_property(Conn, outcome), client_property(Conn, outcome).client)
    /\ UNCHANGED closed

\* conn.close()
Close(io) ==
    /\ AdapterCall("close", close(Conn, io), None)
    /\ closed' = IF client = None THEN closed ELSE IF io = "error" THEN "failed" ELSE "clean"

\* The response leaves the server; a scan's frame is gone with it.
Respond ==
    /\ resp # NoResponse
    /\ resp' = NoResponse
    /\ scan' = [p \in Scanners |-> IF Running(p) THEN scan[p] ELSE IdleFrame]
    /\ evaluated' = {e \in evaluated : \E p \in Scanners : Running(p) /\ scan[p].run = e.run}
    /\ UNCHANGED <<storeVars, connVars, run, origin, lastClear, lastReturn, prevReturn, evalVars, closed>>

(***************************************************************************)
(* The specification: requests are served one at a time.                   *)
(***************************************************************************)
NoEval == [done |-> FALSE, exc |-> "none", ret |-> FALSE]

InitStore ==
    /\ resources = <<>> /\ rules = <<>> /\ findings = <<>>
    /\ nextOid = 1 /\ clock = 1
    /\ client = None /\ db = None
    /\ scan = [p \in Scanners |-> IdleFrame]
    /\ resp = NoResponse
    /\ run = 0 /\ evaluated = {} /\ origin = {} /\ lastClear = 0
    /\ lastReturn = NoReturn /\ prevReturn = NoReturn
    /\ closed = "never"

Init ==
    /\ InitStore
    /\ evalResource = <<>> /\ evalRule = <<>> /\ evalOut = NoEval

Next ==
    \/ \E batch \in ResourceBatches, a \in Attempts, io \in IoOutcomes :
          UploadResources(batch, a, io)
    \/ \E batch \in RuleBatches, a \in Attempts, io \in IoOutcomes :
          UploadRules(batch, a, io)
    \/ \E filter \in FilterPool, a \in Attempts, io \in IoOutcomes :
          DeleteResources(filter, a, io)
    \/ \E filter \in FilterPool, a \in Attempts, io \in IoOutcomes :
          DeleteRules(filter, a, io)
    \/ \E p \in Scanners, a \in Attempts, io \in IoOutcomes :
          Ready /\ ScanClear(p, a, io)
    \/ \E p \in Scanners, a \in Attempts, io \in IoOutcomes : ScanLoadResources(p, a, io)
    \/ \E p \in Scanners, a \in Attempts, io \in IoOutcomes : ScanLoadRules(p, a, io)
    \/ \E p \in Scanners : ScanForResource(p)
    \/ \E p \in Scanners, a \in Attempts, io \in IoOutcomes : ScanForRule(p, a, io)
    \/ \E a \in Attempts, io \in IoOutcomes : ListFindings(a, io)
    \/ \E a \in Attempts, io \in IoOutcomes : GetSeverityStatus(a, io)
    \/ \E a \in Attempts, io \in IoOutcomes : GetIssuesByResourceType(a, io)
    \/ \E a \in Attempts, io \in IoOutcomes : GetIssuesByRegion(a, io)
    \/ Respond

Spec == Init /\ [][Next]_vars

(***************************************************************************)
(* SpecRepo: every operation of the repository, through the endpoints and  *)
(* called directly, on a store of few documents.  SpecConn: the adapter    *)
(* and the single-document operations, with every outcome of a connection  *)
(* attempt.                                                                *)
(***************************************************************************)
RepoCalls ==
    \/ \E data \in ResourcePool, a \in Attempts, io \in IoOutcomes : ResourceCreate(data, a, io)
    \/ \E data \in RulePool, a \in Attempts, io \in IoOutcomes : RuleCreate(data, a, io)
    \/ \E id \in IdPool, a \in Attempts, io \in IoOutcomes : ResourceFindById(id, a, io)
    \/ \E id \in IdPool, a \in Attempts, io \in IoOutcomes : RuleFindById(id, a, io)
    \/ \E id \in IdPool, u \in ResourceUpdates, a \in Attempts, io \in IoOutcomes :
          ResourceUpdate(id, u, a, io)
    \/ \E id \in IdPool, u \in RuleUpdates, a \in Attempts, io \in IoOutcomes :
          RuleUpdate(id, u, a, io)
    \/ \E id \in IdPool, a \in Attempts, io \in IoOutcomes : ResourceDelete(id, a, io)
    \/ \E id \in IdPool, a \in Attempts, io \in IoOutcomes : RuleDelete(id, a, io)

EndpointCalls ==
    \/ \E data \in ResourcePool, a \in Attempts, io \in IoOutcomes :
          UploadResources(<<data>>, a, io)
    \/ \E data \in RulePool, a \in Attempts, io \in IoOutcomes : UploadRules(<<data>>, a, io)
    \/ \E a \in Attempts, io \in IoOutcomes : DeleteResources(<<>>, a, io)
    \/ \E a \in Attempts, io \in IoOutcomes : DeleteRules(<<>>, a, io)
    \/ \E p \in Scanners, a \in Attempts, io \in IoOutcomes : Ready /\ ScanClear(p, a, io)
    \/ \E p \in Scanners, a \in Attempts, io \in IoOutcomes : ScanLoadResources(p, a, io)
    \/ \E p \in Scanners, a \in Attempts, io \in IoOutcomes : ScanLoadRules(p, a, io)
    \/ \E p \in Scanners : ScanForResource(p)
    \/ \E p \in Scanners, a \in Attempts, io \in IoOutcomes : ScanForRule(p, a, io)
    \/ \E a \in Attempts, io \in IoOutcomes : ListFindings(a, io)
    \/ \E a \in Attempts, io \in IoOutcomes : GetSeverityStatus(a, io)
    \/ \E a \in Attempts, io \in IoOutcomes : GetIssuesByResourceType(a, io)
    \/ \E a \in Attempts, io \in IoOutcomes : GetIssuesByRegion(a, io)

NextRepo == EndpointCalls \/ RepoCalls \/ Respond

SpecRepo == Init /\ [][NextRepo]_vars

AdapterCalls ==
    \/ \E outcome \in ConnectOutcomes : Connect(outcome)
    \/ \E first \in ConnectOutcomes, second \in ConnectOutcomes : GetDatabase(<<first, second>>)
    \/ \E outcome \in ConnectOutcomes : GetClient(outcome)
    \/ \E io \in IoOutcomes : Close(io)

NextConn == AdapterCalls \/ RepoCalls \/ Respond

SpecConn == Init /\ [][NextConn]_vars

(***************************************************************************)
(* SpecRace: the server takes up a scan request while another scan runs    *)
(* (views.py 202-208 and engine.py 72-126 hold no lock), so the store      *)
(* operations of two runs interleave.  The resources and the rules are     *)
(* uploaded before the first scan and stay as they are.                    *)
(***************************************************************************)
RaceResourceBatches == {<<R_web>>, <<R_logs, R_web>>}
RaceRuleBatches == {<<Q_running>>, <<Q_s3>>, <<Q_s3, Q_running>>}

\* a response is written when the one before it has left
Answering == resp' # resp => resp = NoResponse

NextRace ==
    \/ \E batch \in RaceResourceBatches, a \in Attempts, io \in IoOutcomes :
          run = 0 /\ UploadResources(batch, a, io)
    \/ \E batch \in RaceRuleBatches, a \in Attempts, io \in IoOutcomes :
          run = 0 /\ UploadRules(batch, a, io)
    \/ \E p \in Scanners, a \in Attempts, io \in IoOutcomes : ScanClear(p, a, io) /\ Answering
    \/ \E p \in Scanners, a \in Attempts, io \in IoOutcomes :
          ScanLoadResources(p, a, io) /\ Answering
    \/ \E p \in Scanners, a \in Attempts, io \in IoOutcomes :
          ScanLoadRules(p, a, io) /\ Answering
    \/ \E p \in Scanners : ScanForResource(p) /\ Answering
    \/ \E p \in Scanners, a \in Attempts, io \in IoOutcomes : ScanForRule(p, a, io) /\ Answering
    \/ Respond

SpecRace == Init /\ [][NextRace]_vars

(***************************************************************************)
(* SpecEval: evaluate_rule applied to one resource and one rule drawn from *)
(* the JSON values a client can upload.                                    *)
(***************************************************************************)
KnownOps ==
    {"eq", "neq", "gt", "lt", "gte", "lte", "contains", "not_contains", "in", "not_in"}

EvalScalars ==
    {PyNone, PyBool(TRUE), PyBool(FALSE), PyFloat(10), PyFloat(15)}
    \cup {PyInt(k) : k \in 0..MaxNum}
    \cup {PyStr(x) : x \in {"", "1", "1.0", "abc", "xABCx", "True", " 2"}}

EvalLists ==
    {PyList(<<>>), PyList(<<PyNone>>), PyList(<<PyStr("1")>>),
     PyList(<<PyInt(1), PyStr("abc")>>)}

EvalValues == EvalScalars \cup EvalLists

\* A resource holds the field "f", or it does not.
EvalResources == {[f |-> v] : v \in EvalValues} \cup {[g |-> PyInt(1)], <<>>}

EvalFields == {PyStr("f"), PyStr("h"), PyNone, PyInt(1), PyList(<<PyStr("f")>>)}
EvalOps ==
    {PyStr(o) : o \in KnownOps \cup {"regex", "EQ"}}
    \cup {PyInt(1), PyList(<<PyStr("eq")>>)}

\* A rule holds each of field, op and value, or lacks it.
EvalRules ==
    {f @@ o @@ v : f \in {<<>>} \cup {[field |-> x] : x \in EvalFields},
                   o \in {<<>>} \cup {[op |-> x] : x \in EvalOps},
                   v \in {<<>>} \cup {[value |-> x] : x \in EvalValues}}

InitEval ==
    /\ InitStore
    /\ evalResource \in EvalResources
    /\ evalRule \in EvalRules
    /\ evalOut = NoEval

Evaluate ==
    /\ ~evalOut.done
    /\ evalOut' = [done |-> TRUE,
                   exc  |-> evaluate_rule(evalResource, evalRule).exc,
                   ret  |-> evaluate_rule(evalResource, evalRule).ret]
    /\ UNCHANGED <<storeVars, connVars, scan, resp, histVars, evalResource, evalRule, closed>>

NextEval == Evaluate

SpecEval == InitEval /\ [][NextEval]_vars

(***************************************************************************)
(* Properties of scan_all_resources, under Spec.                           *)
(***************************************************************************)
\* The rule names a resource_type (a blank one names none).
RuleTypeSet(rule) ==
    "resource_type" \in DOMAIN rule /\ rule["resource_type"] \notin {PyNone, PyStr("")}

\* The rule names a resource_type that is not the resource's.
TypeDiffers(resource, rule) ==
    /\ RuleTypeSet(rule)
    /\ \/ "resource_type" \notin DOMAIN resource
       \/ resource["resource_type"] # rule["resource_type"]

\* The (resource, rule) pairs of what scan p loaded, by position.
Loaded(p) == (1..Len(scan[p].resources)) \X (1..Len(scan[p].rules))
LoadedResource(p, ij) == scan[p].resources[ij[1]]
LoadedRule(p, ij) == scan[p].rules[ij[2]]
PairOf(p, ij) ==
    [run |-> scan[p].run, rid |-> LoadedResource(p, ij)["_id"], qid |-> LoadedRule(p, ij)["_id"]]

\* The loaded pairs whose rule applies to the resource's type and matches it.
MatchingPairs(p) ==
    {ij \in Loaded(p) :
        /\ ~TypeDiffers(LoadedResource(p, ij), LoadedRule(p, ij))
        /\ evaluate_rule(LoadedResource(p, ij), LoadedRule(p, ij)) = Returns(TRUE)}

\* The findings in the collection that scan p wrote for the pair.
FindingsOf(p, ij) ==
    {k \in 1..Len(findings) :
        /\ Content(findings[k]) = finding_data(LoadedResource(p, ij), LoadedRule(p, ij))
        /\ \E o \in origin : /\ o.fid = findings[k]["_id"]
                             /\ [run |-> o.run, rid |-> o.rid, qid |-> o.qid] = PairOf(p, ij)}

\* C1: when scan_all_resources has returned normally (no other scan, no writer
\* meanwhile), the Finding collection holds exactly one Finding for every loaded
\* (resource, rule) pair whose rule is type-applicable and evaluates to true,
\* and no other Finding.
C1_FindingsAreTheMatchingPairs ==
    \A p \in Scanners :
        scan[p].pc = "returned" =>
            /\ \A ij \in MatchingPairs(p) : Cardinality(FindingsOf(p, ij)) = 1
            /\ \A k \in 1..Len(findings) : \E ij \in MatchingPairs(p) : k \in FindingsOf(p, ij)
            /\ Len(findings) = Cardinality(MatchingPairs(p))

\* A scan returned with findings while a loaded pair was skipped for its type
\* although its field matches, so that the finding set is not all the pairs.
C1_Witness ==
    \E p \in Scanners :
        /\ scan[p].pc = "returned"
        /\ Len(findings) >= 1
        /\ \E ij \in Loaded(p) :
              /\ TypeDiffers(LoadedResource(p, ij), LoadedRule(p, ij))
              /\ evaluate_rule(LoadedResource(p, ij), LoadedRule(p, ij)) = Returns(TRUE)

AfterClear == {"load_resources", "load_rules", "for_resource", "for_rule", "returned"}

\* C2: in every state during and after a scan run, no Finding from before that
\* run's clear_all() is in the collection: every Finding there was created by
\* the run whose clear_all() was the last, and a run that is past its
\* clear_all() is that run.
C2_NoStaleFindings ==
    /\ \A k \in 1..Len(findings) :
          \E o \in origin : o.fid = findings[k]["_id"] /\ o.run = lastClear
    /\ \A p \in Scanners : scan[p].pc \in AfterClear => lastClear = scan[p].run

\* The second scan has written a finding, and the first had left findings.
C2_Witness ==
    /\ lastClear = 2
    /\ findings # <<>>
    /\ lastReturn.valid /\ lastReturn.run = 1 /\ lastReturn.findings_created >= 1

\* C3: two scans in succession, with resources and rules unchanged in between,
\* return the same findings_created and leave the same Finding set up to the
\* identifiers and time stamps the store assigns.
C3_ScanTwiceSame ==
    (lastReturn.valid /\ prevReturn.valid) =>
        /\ lastReturn.run = prevReturn.run + 1
        /\ lastReturn.findings_created = prevReturn.findings_created
        /\ lastReturn.content = prevReturn.content

\* Two such scans have returned, each with two findings.
C3_Witness ==
    /\ lastReturn.valid /\ prevReturn.valid
    /\ lastReturn.findings_created >= 2
    /\ \E p \in Scanners : scan[p].pc = "returned"

\* The loop of scan p has been through the pair.
Reached(p, ij) ==
    \/ ij[1] < scan[p].i
    \/ ij[1] = scan[p].i /\ ij[2] <= scan[p].j

\* C4: a rule whose resource_type is set and differs from the resource's is
\* never evaluated against that resource and never yields a Finding for it,
\* whatever the resource's fields hold; a rule with no resource_type is
\* evaluated against every loaded resource (every one the loop has reached,
\* and all of them when the scan returns).
C4_TypeFilter ==
    \A p \in Scanners : \A ij \in Loaded(p) :
        /\ TypeDiffers(LoadedResource(p, ij), LoadedRule(p, ij)) =>
              /\ PairOf(p, ij) \notin evaluated
              /\ ~\E o \in origin : [run |-> o.run, rid |-> o.rid, qid |-> o.qid] = PairOf(p, ij)
        /\ (~RuleTypeSet(LoadedRule(p, ij)) /\ (Reached(p, ij) \/ scan[p].pc = "returned")) =>
              PairOf(p, ij) \in evaluated

\* A scan returned having skipped a rule of another type whose field matches,
\* and having evaluated a rule without a type.
C4_Witness ==
    \E p \in Scanners :
        /\ scan[p].pc = "returned"
        /\ \E ij \in Loaded(p) :
              /\ TypeDiffers(LoadedResource(p, ij), LoadedRule(p, ij))
              /\ evaluate_rule(LoadedResource(p, ij), LoadedRule(p, ij)) = Returns(TRUE)
              /\ PairOf(p, ij) \notin evaluated
        /\ \E ij \in Loaded(p) :
              /\ ~RuleTypeSet(LoadedRule(p, ij))
              /\ PairOf(p, ij) \in evaluated

(***************************************************************************)
(* Properties of evaluate_rule, under SpecEval.                            *)
(***************************************************************************)
EvalField    == DictGet(evalRule, "field")
EvalOp       == DictGet(evalRule, "op")
EvalExpected == DictGet(evalRule, "value")

\* The key rule.field is present in the resource (the keys are strings).
KeyPresent == EvalField.t = "str" /\ EvalField.s \in DOMAIN evalResource

\* The resource's value for rule.field; no value where the key is not present.
EvalActual == IF KeyPresent THEN evalResource[EvalField.s] ELSE PyNone

ReturnedValue(b) == evalOut.exc = "none" /\ evalOut.ret = b

\* C5: for every resource and every rule, whatever its operator and expected
\* value, such that the key rule.field is not present in the resource,
\* evaluate_rule returns false.
C5_AbsentFieldIsFalse ==
    (evalOut.done /\ ~KeyPresent) => ReturnedValue(FALSE)

\* C6: a key that is present with a falsy value (0, "", false, null) is not
\* taken for an absent one: evaluate_rule returns what the rule's operator
\* gives on that value.
C6_FalsyIsNotAbsent ==
    (evalOut.done /\ KeyPresent /\ ~Truthy(EvalActual)) =>
        /\ evalOut.exc = Dispatch(EvalOp, EvalActual, EvalExpected).exc
        /\ evalOut.ret = Dispatch(EvalOp, EvalActual, EvalExpected).ret

Stringable == {"str", "int", "float", "bool"}

\* C7: with op eq and a field that holds a string, a number or a boolean,
\* evaluate_rule returns true iff the string forms of the actual value and of
\* rule.value are equal (so 1 and "1" match); with op neq, iff they differ.
C7_EqComparesStringForms ==
    (evalOut.done /\ KeyPresent /\ EvalActual.t \in Stringable) =>
        /\ EvalOp = PyStr("eq")  => ReturnedValue(str(EvalActual) = str(EvalExpected))
        /\ EvalOp = PyStr("neq") => ReturnedValue(str(EvalActual) # str(EvalExpected))
        /\ (EvalOp = PyStr("eq") /\ EvalActual = PyInt(1) /\ EvalExpected = PyStr("1"))
              => ReturnedValue(TRUE)
        /\ (EvalOp = PyStr("eq") /\ EvalActual = PyStr("1") /\ EvalExpected = PyInt(1))
              => ReturnedValue(TRUE)
        /\ (EvalOp = PyStr("eq") /\ EvalActual = PyBool(TRUE) /\ EvalExpected = PyStr("True"))
              => ReturnedValue(TRUE)
        /\ (EvalOp = PyStr("neq") /\ EvalActual = PyInt(1) /\ EvalExpected = PyStr("1"))
              => ReturnedValue(FALSE)
        /\ (EvalOp = PyStr("neq") /\ EvalActual = PyInt(1) /\ EvalExpected = PyStr("1.0"))
              => ReturnedValue(TRUE)

\* eq has matched the number 1 against the string "1".
C7_Witness ==
    /\ evalOut.done /\ KeyPresent
    /\ EvalOp = PyStr("eq") /\ EvalActual = PyInt(1) /\ EvalExpected = PyStr("1")
    /\ evalOut.ret

CompareOps == {"gt", "lt", "gte", "lte"}

\* C8: with op gt, lt, gte or lte, evaluate_rule returns false and raises
\* nothing if the resource's field value or rule.value cannot be parsed as a
\* number, and the numeric comparison of actual against expected if both parse.
C8_CompareIsNumericOrFalse ==
    (evalOut.done /\ EvalOp \in {PyStr(o) : o \in CompareOps}) =>
        LET a == float(EvalActual)
            e == float(EvalExpected)
        IN  IF a.exc # "none" \/ e.exc # "none"
            THEN ReturnedValue(FALSE)
            ELSE ReturnedValue(CASE EvalOp.s = "gt"  -> a.num * e.den > e.num * a.den
                                 [] EvalOp.s = "lt"  -> a.num * e.den < e.num * a.den
                                 [] EvalOp.s = "gte" -> a.num * e.den >= e.num * a.den
                                 [] EvalOp.s = "lte" -> a.num * e.den <= e.num * a.den)

\* C9: with op in or not_in on a field the resource holds: a rule.value that is
\* not a list gives false for both; a list gives, for in, whether the raw field
\* value is an element of it and, for not_in, whether it is not.
C9_Membership ==
    (evalOut.done /\ KeyPresent /\ EvalOp \in {PyStr("in"), PyStr("not_in")}) =>
        IF EvalExpected.t # "list"
        THEN ReturnedValue(FALSE)
        ELSE LET member == \E k \in 1..Len(EvalExpected.l) : PyEq(EvalActual, EvalExpected.l[k])
             IN  ReturnedValue(IF EvalOp.s = "in" THEN member ELSE ~member)

\* C10: evaluate_rule is total: whatever the resource and the rule, it returns
\* a boolean and no exception leaves it, and an op outside the ten known
\* operators gives false.
C10_Total ==
    evalOut.done =>
        /\ evalOut.exc = "none"
        /\ EvalOp \notin {PyStr(o) : o \in KnownOps} => evalOut.ret = FALSE

\* The findings in the collection that run r wrote.
WrittenBy(r) == {o \in origin : o.run = r}

\* C11: a scan that returns normally reports resources_scanned = the number of
\* resources it loaded, rules_evaluated = resources_scanned times the number of
\* rules it loaded (pairs the type filter skips are counted), and
\* findings_created = the number of Findings the run wrote.
C11_ScanCounters ==
    \A p \in Scanners :
        scan[p].pc = "returned" =>
            /\ resp.op = "scan" /\ resp.status = 200
            /\ resp.results.resources_scanned = Len(scan[p].resources)
            /\ resp.results.rules_evaluated = resp.results.resources_scanned * Len(scan[p].rules)
            /\ resp.results.findings_created = Cardinality(WrittenBy(scan[p].run))

\* A scan returned that skipped a pair for its type, counted it nevertheless,
\* and wrote a finding.
C11_Witness ==
    \E p \in Scanners :
        /\ scan[p].pc = "returned"
        /\ resp.results.findings_created >= 1
        /\ resp.results.rules_evaluated >= 2
        /\ \E ij \in Loaded(p) : TypeDiffers(LoadedResource(p, ij), LoadedRule(p, ij))
        /\ resp.results.rules_evaluated > Cardinality({e \in evaluated : e.run = scan[p].run})

\* The finding k of the collection was written by scan p for the pair ij.
WrittenFor(p, ij, k) ==
    \E o \in origin : /\ o.fid = findings[k]["_id"]
                      /\ [run |-> o.run, rid |-> o.rid, qid |-> o.qid] = PairOf(p, ij)

\* The value of a key the document holds.
Has(document, key, val) == key \in DOMAIN document => val = document[key]

\* C12: every Finding a scan writes for a matched (resource, rule) pair carries
\* the resource's identifier, name and resource_type, the rule's name,
\* description, field and op, the rule's severity (MEDIUM when it has none), the
\* string form of resource[rule.field] as actual_value and the string form of
\* rule.value as expected_value.
C12_FindingFields ==
    \A p \in Scanners : \A ij \in Loaded(p) : \A k \in 1..Len(findings) :
        WrittenFor(p, ij, k) =>
            LET f == findings[k]
                r == LoadedResource(p, ij)
                q == LoadedRule(p, ij)
            IN  /\ f.resource_id = r["_id"]
                /\ Has(r, "name", f.resource_name)
                /\ Has(r, "resource_type", f.resource_type)
                /\ Has(q, "name", f.rule_name)
                /\ Has(q, "description", f.rule_description)
                /\ f.field = q.field
                /\ f.operator = q.op
                /\ f.severity = IF "severity" \in DOMAIN q THEN q.severity ELSE PyStr("MEDIUM")
                /\ f.actual_value = PyStr(str(r[q.field.s]))
                /\ f.expected_value = PyStr(str(q.value))
                /\ (q.field = PyStr("status") /\ r.status = PyStr("running") /\ q.value = PyStr("running"))
                      => f.actual_value = PyStr("running") /\ f.expected_value = PyStr("running")
                /\ (q.field = PyStr("size") /\ r.size = PyInt(1) /\ q.value = PyFloat(10))
                      => f.actual_value = PyStr("1") /\ f.expected_value = PyStr("1.0")

\* A scan has written a finding for a rule without severity, and one whose
\* actual and expected values are numbers.
C12_Witness ==
    \E p \in Scanners :
        /\ \E ij \in Loaded(p) : \E k \in 1..Len(findings) :
              /\ WrittenFor(p, ij, k)
              /\ "severity" \notin DOMAIN LoadedRule(p, ij)
              /\ findings[k].severity = PyStr("MEDIUM")
        /\ \E ij \in Loaded(p) : \E k \in 1..Len(findings) :
              /\ WrittenFor(p, ij, k)
              /\ findings[k].actual_value = PyStr("1")
              /\ findings[k].expected_value = PyStr("1.0")

(***************************************************************************)
(* Properties of the aggregations, under Spec.                             *)
(***************************************************************************)
\* The store could not be had or the driver's call failed.
StoreErrors == {"RuntimeError", "PyMongoError"}

\* The findings of the collection whose severity is sev.
WithSeverity(sev) ==
    {k \in 1..Len(findings) : "severity" \in DOMAIN findings[k] /\ findings[k].severity = PyStr(sev)}

\* C13: whatever the Finding collection holds (nothing, or findings of any
\* severities), severity_summary() returns a mapping with exactly the keys
\* CRITICAL, HIGH, MEDIUM, LOW, INFO, each with the number of findings of that
\* severity, 0 where there is none.
C13_SeveritySummaryShape ==
    (resp.op = "getSeverityStatus" /\ resp.error \notin StoreErrors) =>
        /\ resp.status = 200
        /\ DOMAIN resp.results = Severities
        /\ \A sev \in Severities : resp.results[sev] = Cardinality(WithSeverity(sev))

RECURSIVE SumOver(_, _)
SumOver(f, keys) ==
    IF keys = {} THEN 0
    ELSE LET key == CHOOSE x \in keys : TRUE IN f[key] + SumOver(f, keys \ {key})

\* C14: after any uploads and scans, the five counts of severity_summary() sum
\* to the number of findings that list findings returns, also when rules have
\* no severity or one outside the five levels.
C14_SeveritySumIsTotal ==
    (resp.op = "getSeverityStatus" /\ resp.status = 200) =>
        SumOver(resp.results, DOMAIN resp.results) = Len(find_all(findings))

\* The stored resource a finding refers to: the one whose identifier is the
\* finding's resource_id (in the string form the API gives identifiers).
ResourceOf(finding) ==
    {j \in 1..Len(resources) : PyStr(str(resources[j]["_id"])) = finding.resource_id}

\* The region by_region() is to count the finding under.
RegionOf(finding) ==
    IF \E j \in ResourceOf(finding) :
          "region" \in DOMAIN resources[j] /\ resources[j].region # PyNone
    THEN resources[CHOOSE j \in ResourceOf(finding) : TRUE].region
    ELSE PyStr("unknown")

RECURSIVE SumCounts(_)
SumCounts(rows) == IF rows = <<>> THEN 0 ELSE Head(rows).count + SumCounts(Tail(rows))

\* The count by_region() gave for region g.
CountUnder(rows, g) == SumCounts(SelectSeq(rows, LAMBDA row : row.region = g))

\* C15: by_region() joins each Finding to its Resource through resource_id =
\* _id: a Finding whose resource exists with region g is counted under g, one
\* whose resource has no region (missing or null) under "unknown"; the
\* resource_id a scan stores is a value the join matches against the stored
\* identifier of the resource.
C15_RegionJoin ==
    (resp.op = "getIssuesByRegion" /\ resp.status = 200) =>
        /\ \A k \in 1..Len(findings) :
              ResourceOf(findings[k]) # {} => Lookup(findings[k], resources) # <<>>
        /\ \A k \in 1..Len(findings) :
              CountUnder(resp.results, RegionOf(findings[k])) =
                  Cardinality({h \in 1..Len(findings) : RegionOf(findings[h]) = RegionOf(findings[k])})

\* C16: by_region() does not fail because a Finding refers to a Resource that
\* is gone: it fails only when the store does, such a Finding is counted under
\* "unknown", and the counts sum to the number of Findings.
C16_RegionDangling ==
    resp.op = "getIssuesByRegion" =>
        /\ resp.status # 200 => resp.error \in StoreErrors
        /\ resp.status = 200 =>
              /\ SumCounts(resp.results) = Len(findings)
              /\ CountUnder(resp.results, PyStr("unknown")) >=
                    Cardinality({k \in 1..Len(findings) : ResourceOf(findings[k]) = {}})

\* by_region() answered while the collection held findings whose resources
\* had been deleted.
C16_Witness ==
    /\ resp.op = "getIssuesByRegion" /\ resp.status = 200
    /\ Len(findings) >= 2
    /\ \E k \in 1..Len(findings) : ResourceOf(findings[k]) = {}
    /\ CountUnder(resp.results, PyStr("unknown")) >= 2

(***************************************************************************)
(* C17: the repository without a store                                     *)
(***************************************************************************)
\* C17: whenever get_mongodb() yields no database, the operation of the
\* repository that asked for it (create, bulk_create, find_all, find_by_id,
\* update, delete, bulk_delete, clear_all, an aggregation; a scan through
\* them) fails with the RuntimeError of get_collection: the call or request
\* that finished with the adapter holding no database did not succeed.
C17_UnavailableFails ==
    (resp.op # "none" /\ db = None) =>
        /\ resp.error = "RuntimeError"
        /\ resp.status \in {0, 500}

\* a scan was asked for while the store could not be reached
C17_Witness ==
    /\ resp.op = "scan" /\ db = None
    /\ resp.error = "RuntimeError" /\ resp.status = 500

(***************************************************************************)
(* C18-C20: the adapter                                                    *)
(***************************************************************************)
AdapterOps == {"connect", "get_database", "client"}

\* C18: connect() never raises: a call of connect(), of get_mongodb() or of
\* the client property whose connection attempt failed (the settings, the
\* client or the ping) returned normally and left the adapter with no client
\* and no database, get_mongodb() and the property returned None, and no
\* call of the repository ended with an exception of a connection attempt.
C18_ConnectNeverRaises ==
    /\ resp.error \notin ConnectOutcomes \cup ConnectionFailures
    /\ (resp.op \in AdapterOps /\ resp.tried \notin {"none", "ok"}) =>
           /\ resp.error = "none"
           /\ client = None /\ db = None
           /\ resp.value = None

\* the ping failed in a way the first handler does not name
C18_Witness ==
    /\ resp.op = "get_database" /\ resp.tried = "OperationFailure"
    /\ resp.error = "none" /\ resp.value = None
    /\ client = None /\ db = None

\* C19: connect() is idempotent: while a client is held, a call of connect(),
\* of get_mongodb(), of the client property or of the repository makes no
\* connection attempt and leaves client and database as they are, and
\* get_mongodb() returns the database the one adapter holds.
C19_ConnectIdempotent ==
    [][(client # None /\ resp = NoResponse /\ resp'.op \notin {"none", "close"}) =>
          /\ client' = client /\ db' = db
          /\ resp'.op \in AdapterOps => (resp'.tried = "none" /\ resp'.error = "none")
          /\ resp'.op = "get_database" => resp'.value = db
          /\ resp'.op = "client" => resp'.value = client]_vars

\* connect() was called while a client was held
C19_Witness ==
    /\ resp.op = "connect" /\ resp.tried = "none"
    /\ client = Handle /\ db = Handle

\* C20: close() is safe in every state: it raises nothing; called with a
\* client held it leaves no client and no database, also when the client's
\* own close() fails; called with none held it changes nothing; and a
\* get_mongodb() on the closed adapter whose attempt succeeds connects again
\* and returns the database.
C20_CloseSafe ==
    [][/\ (resp = NoResponse /\ resp'.op = "close") =>
             /\ resp'.error = "none"
             /\ client' = None /\ db' = None
             /\ client = None => (client' = client /\ db' = db /\ closed' = closed)
       /\ (resp = NoResponse /\ resp'.op = "get_database" /\ client = None
             /\ resp'.tried = "ok") =>
             /\ client' = Handle /\ db' = Handle
             /\ resp'.value = Handle]_vars

\* a close() whose client failed to close, and get_mongodb() after it
C20_Witness ==
    /\ closed = "failed"
    /\ resp.op = "get_database" /\ resp.tried = "ok"
    /\ resp.value = Handle /\ client = Handle /\ db = Handle

(***************************************************************************)
(* C21: bulk_create                                                        *)
(***************************************************************************)
Stamped(document) == {"_id", "created_at", "updated_at"} \subseteq DOMAIN document

\* `after` is `before` followed by `count` stamped documents
GrewBy(before, after, count) ==
    /\ Len(after) = Len(before) + count
    /\ SubSeq(after, 1, Len(before)) = before
    /\ \A k \in (Len(before) + 1)..Len(after) : Stamped(after[k])

\* C21: bulk_create stamps and inserts every record of any list, the empty
\* list included, and returns how many it inserted: an upload that the store
\* does not fail answers 201 with the count of records, and the collection
\* is the one before followed by that many stamped documents (unchanged for
\* an empty list, with count 0).
C21_BulkCreateAnyList ==
    [][/\ (resp = NoResponse /\ resp'.op = "uploadResources"
             /\ resp'.error \notin StoreErrors) =>
             (resp'.status = 201 /\ GrewBy(resources, resources', resp'.count))
       /\ (resp = NoResponse /\ resp'.op = "uploadRules"
             /\ resp'.error \notin StoreErrors) =>
             (resp'.status = 201 /\ GrewBy(rules, rules', resp'.count))]_vars

(***************************************************************************)
(* SpecList: Resource.find_all, through list_resources and called          *)
(* directly, on the resources the uploads and deletes leave.               *)
(***************************************************************************)
\* ResourceListSerializer: the fields of a list request
ListFilters == {<<>>, [resource_type |-> PyStr("ec2")], [name |-> PyStr("web")]}
SearchPool == {PyNone, PyStr(""), PyStr("LOG"), PyStr("e")}
SortFields == {"name", "size"}
SortOrders == {"asc", "desc"}

\* Resource.find_all, line 75
sort_direction(sort_order) == IF sort_order = "asc" THEN 1 ELSE -1

\* Resource.find_all, lines 67-86: get_collection, the query, the sorted page
\* and the count; `status` is 200 for the view and 0 for a direct call.  The
\* response keeps the request it answers.
FindAll(op, status, request, attempt, io) ==
    /\ Ready
    /\ client' = get_mongodb(Conn, attempt).client
    /\ db' = get_mongodb(Conn, attempt).db
    /\ IF CallOutcome(Conn, attempt, io) = "ok"
       THEN \E ordered \in SortedOrders(
                   Where(resources, find_all_query(request.filter_dict, request.search_str)),
                   request.sort_by, sort_direction(request.sort_order)) :
               resp' = [op |-> op, status |-> status, count |-> 0,
                        results |-> Resource_find_all(ordered, request.skip, request.limit),
                        error |-> "none", request |-> request]
       ELSE resp' = IF status = 0 THEN Raised(op, CallOutcome(Conn, attempt, io))
                    ELSE Failure(op, CallOutcome(Conn, attempt, io))
    /\ UNCHANGED <<storeVars, scan, histVars, evalVars, closed>>

\* list_resources, lines 72-95
ListResources(filter, page_number, page_size, sort_by, sort_order, search_str, attempt, io) ==
    FindAll("listResources", 200,
            [filter_dict |-> filter, skip |-> (page_number - 1) * page_size,
             limit |-> page_size, sort_by |-> sort_by, sort_order |-> sort_order,
             search_str |-> search_str, page_number |-> page_number, page_size |-> page_size],
            attempt, io)

\* Resource.find_all, lines 64-86, called with a skip and a limit
ResourceFindAll(filter, skip, limit, sort_by, sort_order, search_str, attempt, io) ==
    FindAll("Resource.find_all", 0,
            [filter_dict |-> filter, skip |-> skip, limit |-> limit, sort_by |-> sort_by,
             sort_order |-> sort_order, search_str |-> search_str],
            attempt, io)

NextList ==
    \/ \E batch \in ResourceBatches, a \in Attempts, io \in IoOutcomes :
          UploadResources(batch, a, io)
    \/ \E filter \in FilterPool, a \in Attempts, io \in IoOutcomes :
          DeleteResources(filter, a, io)
    \/ \E filter \in ListFilters, page_number \in 1..MaxPage, page_size \in 1..MaxSize,
          sort_by \in SortFields, sort_order \in SortOrders, search_str \in SearchPool,
          a \in Attempts, io \in IoOutcomes :
          ListResources(filter, page_number, page_size, sort_by, sort_order, search_str, a, io)
    \/ \E filter \in ListFilters, skip \in 0..MaxOid, limit \in 1..MaxSize,
          sort_by \in SortFields, sort_order \in SortOrders, search_str \in SearchPool,
          a \in Attempts, io \in IoOutcomes :
          ResourceFindAll(filter, skip, limit, sort_by, sort_order, search_str, a, io)
    \/ Respond

SpecList == Init /\ [][NextList]_vars

(***************************************************************************)
(* C22-C23: Resource.find_all, under SpecList                              *)
(***************************************************************************)
ListOps == {"listResources", "Resource.find_all"}
Listed == resp.op \in ListOps /\ resp.error = "none"

\* the name of the document holds s, whatever the case of the letters
NameHas(document, s) ==
    /\ "name" \in DOMAIN document
    /\ document.name.t = "str"
    /\ Substring(lower(s), lower(document.name.s))

\* The stored resources the request asks for: those that satisfy the whole
\* filter and, when a search string is given, the search on the name.
Asked(request) ==
    SelectSeq(resources,
              LAMBDA d : /\ Matches(d, request.filter_dict)
                         /\ Truthy(request.search_str) => NameHas(d, request.search_str.s))

InAsked(record, request) ==
    \E k \in 1..Len(Asked(request)) : record = to_dict(Asked(request)[k])

\* C22: find_all returns at most limit records, each a stored resource the
\* query asks for, with a total that is the number of stored resources the
\* query asks for (whatever the skip and the limit), page_size = limit and
\* page_number = (skip div limit) + 1; list_resources echoes the page number
\* and the page size of the request.
C22_FindAllPage ==
    Listed =>
        /\ Len(resp.results.data) <= resp.request.limit
        /\ \A k \in 1..Len(resp.results.data) : InAsked(resp.results.data[k], resp.request)
        /\ resp.results.total = Len(Asked(resp.request))
        /\ resp.results.page_size = resp.request.limit
        /\ resp.results.page_number = (resp.request.skip \div resp.request.limit) + 1
        /\ resp.op = "listResources" =>
              /\ resp.results.page_number = resp.request.page_number
              /\ resp.results.page_size = resp.request.page_size

\* C23: with a filter and a search string, every record returned and the
\* total satisfy the whole filter and the search on the name, also when the
\* filter has a condition on the name.
C23_SearchAndFilter ==
    (Listed /\ Truthy(resp.request.search_str)) =>
        /\ \A k \in 1..Len(resp.results.data) :
              \E j \in 1..Len(resources) :
                 /\ resp.results.data[k] = to_dict(resources[j])
                 /\ Matches(resources[j], resp.request.filter_dict)
                 /\ NameHas(resources[j], resp.request.search_str.s)
        /\ resp.results.total =
              Cardinality({j \in 1..Len(resources) :
                              /\ Matches(resources[j], resp.request.filter_dict)
                              /\ NameHas(resources[j], resp.request.search_str.s)})

(***************************************************************************)
(* C24: update, under SpecConn                                             *)
(***************************************************************************)
\* the places of the documents of `collection` with the identifier id
Having(collection, id) ==
    {k \in 1..Len(collection) : str(collection[k]["_id"]) = id}

\* `new` is `old` with the fields of update_data set, updated_at refreshed
\* and every other field as it was
Merged(old, new, update_data) ==
    /\ DOMAIN new = DOMAIN old \cup DOMAIN update_data \cup {"updated_at"}
    /\ \A key \in DOMAIN update_data \ {"updated_at"} : new[key] = update_data[key]
    /\ new["updated_at"] = utcnow
    /\ \A key \in DOMAIN old \ (DOMAIN update_data \cup {"updated_at"}) : new[key] = old[key]

\* what update(id, update_data) may do to `before`, giving `after` and `value`
Updated(before, after, id, update_data, value) ==
    /\ Len(after) = Len(before)
    /\ \A k \in 1..Len(before) :
          IF k \in Having(before, id) THEN Merged(before[k], after[k], update_data)
          ELSE after[k] = before[k]
    /\ Having(before, id) = {} => (after = before /\ value = FALSE)

\* C24: update(id, partial_fields) of Resource and of Rule sets the given
\* fields and refreshes updated_at in the document with that identifier,
\* leaves its other fields (created_at, the caller's extra fields) and every
\* other document as they were, and returns false and changes nothing when
\* no document has the identifier.
C24_UpdateFrame ==
    [][/\ (resp = NoResponse /\ resp'.op = "Resource.update" /\ resp'.error = "none") =>
             /\ Updated(resources, resources', resp'.request.id,
                        resp'.request.update_data, resp'.value)
             /\ UNCHANGED <<rules, findings>>
       /\ (resp = NoResponse /\ resp'.op = "Rule.update" /\ resp'.error = "none") =>
             /\ Updated(rules, rules', resp'.request.id,
                        resp'.request.update_data, resp'.value)
             /\ UNCHANGED <<resources, findings>>]_vars

\* a resource was updated while another one was stored
C24_Witness ==
    /\ resp.op = "Resource.update" /\ resp.error = "none" /\ resp.value = TRUE
    /\ Len(resources) >= 2
    /\ \E k \in Having(resources, resp.request.id) :
          /\ resources[k]["status"] = PyStr("stopped")
          /\ resources[k]["region"] = PyStr("us")
          /\ resources[k]["updated_at"] # resources[k]["created_at"]

(***************************************************************************)
(* C25: a scan that fails after its clear                                  *)
(***************************************************************************)
\* C25: when a repository call fails in a scan after clear_all() (and after k
\* findings were written), the scan propagates the error: the response is a
\* failure without statistics, exactly the k findings of that run stay in the
\* collection, the findings from before the run are not restored, and the run
\* writes no finding afterwards (a finding is written only by a scan that is
\* in its loops).
C25_FailedScanLeavesPartial ==
    [][/\ \A p \in Scanners :
             (Running(p) /\ scan'[p].pc = "raised" /\ resp'.error \in StoreErrors) =>
                 /\ resp'.op = "scan" /\ resp'.status = 500
                 /\ resp'.results = NoResults
                 /\ findings' = findings
                 /\ Len(findings') = scan'[p].findings_created
                 /\ \A k \in 1..Len(findings') :
                       \E o \in origin' : o.fid = findings'[k]["_id"] /\ o.run = scan'[p].run
       /\ \A p \in Scanners :
             scan[p].pc = "raised" => /\ findings' = findings
                                      /\ scan'[p].pc \in {"raised", "idle"}
       /\ \A o \in origin' \ origin :
             \E p \in Scanners : scan[p].pc = "for_rule" /\ scan[p].run = o.run]_vars

\* the second scan cleared the collection, wrote one finding and failed on
\* the next repository call
C25_Witness ==
    \E p \in Scanners :
        /\ scan[p].pc = "raised" /\ scan[p].run = 2 /\ lastClear = 2
        /\ resp.op = "scan" /\ resp.error \in StoreErrors
        /\ scan[p].findings_created = 1 /\ Len(findings) = 1

(***************************************************************************)
(* C26: the life of a Finding                                              *)
(***************************************************************************)
\* the step is the successful clear_all() with which scan p starts
ClearStep(p) == scan[p].pc = "idle" /\ scan'[p].pc = "load_resources"

\* the step is a Finding.create of scan p in its loops
WriteStep(p) ==
    /\ scan[p].pc = "for_rule" /\ scan'[p].findings_created = scan[p].findings_created + 1
    /\ Len(findings') = Len(findings) + 1
    /\ SubSeq(findings', 1, Len(findings)) = findings

\* C26: over the public operations and the single-document calls, the Finding
\* collection changes only in two ways: a scan in its loops appends one
\* Finding and leaves the others as they are, or the clear at the start of a
\* scan empties it.  A Finding that stays keeps every field; uploading,
\* deleting or updating resources or rules, listing and the summaries leave
\* the collection as it is.
C26_FindingLifecycle ==
    [][/\ findings' # findings =>
             \E p \in Scanners : \/ ClearStep(p) /\ findings' = <<>>
                                 \/ WriteStep(p)
       /\ (resp = NoResponse /\ resp' # NoResponse /\ resp'.op # "scan") =>
             findings' = findings]_vars

\* a resource was deleted while the collection held a finding for it, and the
\* finding stayed
C26_Witness ==
    /\ resp.op \in {"Resource.delete", "deleteResources"} /\ resp.error = "none"
    /\ resources = <<>>
    /\ \E k \in 1..Len(findings) : \E o \in origin : o.fid = findings[k]["_id"]

(***************************************************************************)
(* C28: the order of a run's writes                                        *)
(***************************************************************************)
\* pair a comes before pair b in resource-major, rule-minor order
LexBefore(a, b) == a[1] < b[1] \/ (a[1] = b[1] /\ a[2] < b[2])

\* The findings of scan p's run stand in the collection (which keeps them in
\* the order of their insertion) in the order of their pairs.
WrittenInOrder(p) ==
    \A k1, k2 \in 1..Len(findings) : \A a, b \in Loaded(p) :
        (k1 < k2 /\ WrittenFor(p, a, k1) /\ WrittenFor(p, b, k2)) => LexBefore(a, b)

BothOrNeither == (client = None) <=> (db = None)

\* C29: after any sequence of connect(), get_mongodb(), client reads, close()
\* and repository calls, whose connection attempts succeed or fail in any
\* way, the adapter holds both a client and a database or neither; after a
\* call whose attempt failed it holds no client (the client made before the
\* ping is dropped); and a failed attempt is not sticky: get_mongodb() on an
\* adapter without a client makes a connection attempt, and when the attempt
\* succeeds the adapter holds both handles and the database is returned.
C29_HandlesTogether ==
    [][/\ BothOrNeither /\ BothOrNeither'
       /\ (resp = NoResponse /\ resp'.op \in AdapterOps /\ resp'.tried \notin {"none", "ok"}) =>
             client' = None
       /\ (resp = NoResponse /\ resp'.op = "get_database" /\ client = None) =>
             /\ resp'.tried # "none"
             /\ resp'.tried = "ok" => (client' # None /\ db' # None /\ resp'.value = db')]_vars

\* get_mongodb() connected again after a close() whose client failed to close
C29_Witness ==
    /\ resp.op = "get_database" /\ resp.tried = "ok"
    /\ closed = "failed"
    /\ client = Handle /\ db = Handle /\ resp.value = Handle

(***************************************************************************)
(* C27 and C30: two scans at a time, under SpecRace                        *)
(***************************************************************************)
\* The (resource, rule) pairs of the store, by position.
StoredPairs == (1..Len(resources)) \X (1..Len(rules))
StoredResource(ij) == to_dict(resources[ij[1]])
StoredRule(ij) == to_dict(rules[ij[2]])

\* the rule applies to the resource's type and matches it
PairMatches(ij) ==
    /\ ~TypeDiffers(StoredResource(ij), StoredRule(ij))
    /\ evaluate_rule(StoredResource(ij), StoredRule(ij)) = Returns(TRUE)

\* The findings in the collection that some run wrote for the pair.
FindingsFor(ij) ==
    {k \in 1..Len(findings) :
        \E o \in origin : /\ o.fid = findings[k]["_id"]
                          /\ o.rid = StoredResource(ij)["_id"]
                          /\ o.qid = StoredRule(ij)["_id"]}

\* Two scans have returned normally, one after the other, and none is running.
BothReturned == NoScanRunning /\ lastReturn.valid /\ prevReturn.valid

\* C27: nothing serializes scan runs, and a scan counts its own writes, not
\* the collection: with the store operations of two scans interleaved in any
\* way over unchanged resources and rules, every scan that returns reports as
\* findings_created the number of matching (resource, rule) pairs, which is
\* what a single scan leaves, whatever the collection holds at that time.  The
\* witness is the final state the interleaving reaches: the collection holds
\* two findings for one pair, and the count returned is not the number of
\* Findings present.
C27_CountIsOwnWrites ==
    lastReturn.valid =>
        lastReturn.findings_created = Cardinality({ij \in StoredPairs : PairMatches(ij)})

\* both scans have returned, the second just now; the collection holds two
\* findings for a pair, and more findings than the second scan reports
C27_Witness ==
    /\ BothReturned
    /\ \E p \in Scanners : scan[p].pc = "returned" /\ scan[p].run = lastReturn.run
    /\ resp.op = "scan" /\ resp.status = 200
    /\ resp.results.findings_created # Len(findings)
    /\ \E ij \in StoredPairs : Cardinality(FindingsFor(ij)) = 2

\* C30: when two scans, interleaved in any way over unchanged resources and
\* rules, have both returned normally, the collection holds one or two
\* Findings for every matching (resource, rule) pair, none for a pair that
\* does not match, and no Finding of anything else.
C30_OneOrTwoPerMatch ==
    BothReturned =>
        /\ \A ij \in StoredPairs :
              IF PairMatches(ij) THEN Cardinality(FindingsFor(ij)) \in {1, 2}
              ELSE FindingsFor(ij) = {}
        /\ \A k \in 1..Len(findings) : \E ij \in StoredPairs : k \in FindingsFor(ij)

\* both scans returned; one matching pair has two findings, another has one
C30_Witness ==
    /\ BothReturned
    /\ \E a, b \in StoredPairs :
          /\ Cardinality(FindingsFor(a)) = 2 /\ PairMatches(a)
          /\ Cardinality(FindingsFor(b)) = 1 /\ PairMatches(b)

====
